---------------------------- MODULE Spec2Model ----------------------------
(***************************************************************************)
(* A model of the Brix runtime support library (runtime.c): the reference- *)
(* counted value runtime (Matrix, IntMatrix, ComplexMatrix, BrixString,    *)
(* BrixClosure), the elementwise arithmetic engine and the dense linear-   *)
(* algebra kernel built on top of it.                                      *)
(*                                                                         *)
(* The heap is a sequence of records; a pointer is an index into it and    *)
(* NULL is 0.  An address is never handed out twice, so a freed record     *)
(* stays recognisable as freed.  Every action models one whole call of a   *)
(* runtime function; `last' records the call and what it returned, and     *)
(* `events' the allocations, frees, callbacks and exits the call made, in  *)
(* the order the code makes them.                                          *)
(*                                                                         *)
(* A C double is modelled by an exact rational <<n, d>> (d > 0), with      *)
(* <<1,0>>, <<-1,0>> and <<0,0>> standing for +inf, -inf and NaN; rounding *)
(* is not modelled, and the inputs are chosen so that the arithmetic of a  *)
(* single call is exact on them.  A C long is modelled by an integer.      *)
(***************************************************************************)
EXTENDS Integers, Sequences, FiniteSets, TLC

VARIABLES heap, hist, last, events, status

vars == <<heap, hist, last, events, status>>

-----------------------------------------------------------------------------
(* Bounds of the model. *)

\* Records the lifetime machine (Spec) allocates at most.
MaxObjs == 1
\* Retain calls on values (not on NULL) a behaviour of Spec makes at most.
MaxRetains == 2
\* Operand matrices of the call machine (SpecOps) have rows, cols <= MaxDim
\* and rows * cols <= MaxElems.
MaxDim == 2
MaxElems == 2
\* Square operands of the linear-algebra calls have order <= MaxN.
MaxN == 3
\* Strings handed to str_new have at most MaxStrLen bytes.
MaxStrLen == 2

-----------------------------------------------------------------------------
(* Numbers. *)

NULL == 0

Abs(x) == IF x < 0 THEN -x ELSE x

Sign(x) == IF x < 0 THEN -1 ELSE IF x > 0 THEN 1 ELSE 0

RECURSIVE Gcd(_, _)
Gcd(a, b) == IF b = 0 THEN a ELSE Gcd(b, a % b)

\* The rational n/d in lowest terms with a positive denominator; d = 0 gives
\* the special values.
Rat(n, d) ==
    IF d = 0 THEN <<Sign(n), 0>>
    ELSE LET g == Gcd(Abs(n), Abs(d))
             s == IF d < 0 THEN -1 ELSE 1
         IN  <<(s * n) \div g, (s * d) \div g>>

FromInt(i) == <<i, 1>>

Zero == <<0, 1>>
One == <<1, 1>>
PosInf == <<1, 0>>
NaN == <<0, 0>>

IsFinite(x) == x[2] # 0
IsNaN(x) == x = NaN
IsZero(x) == x[1] = 0 /\ x[2] # 0

\* A double holds 53 significant bits.  <<n, -1>> with n # 0 stands for the
\* finite double n * 2^100: against it every other nonzero finite value the
\* model draws (below 2^31 in magnitude) is less than half a unit in the
\* last place, so that their exact sum is not a double.  Such values are
\* only added, subtracted, negated, compared for equality and copied.
Huge(n) == <<n, -1>>
IsHuge(x) == x[2] = -1

\* <<n, -2>> with n # 0 stands for the finite double n * 2^-100: nonzero,
\* below 1e-10 in magnitude and below every other nonzero value the model
\* draws.  Such values are only compared, negated, copied, added to zero or
\* to another of their kind, and multiplied or divided by a value that
\* leaves n an integer.
Tiny(n) == <<n, -2>>
IsTiny(x) == x[2] = -2

\* x + y, x - y, x * y, x / y of C doubles.
FNeg(x) == <<-x[1], x[2]>>

\* The sum is rounded to the nearest double: a huge value absorbs the other
\* operand; sums of the other finite values are taken as exact.
FAdd(x, y) ==
    IF IsFinite(x) /\ IsFinite(y)
    THEN (IF IsHuge(x) /\ IsHuge(y)
          THEN (IF x[1] + y[1] = 0 THEN Zero ELSE Huge(x[1] + y[1]))
          ELSE IF IsHuge(x) THEN x
          ELSE IF IsHuge(y) THEN y
          ELSE IF IsTiny(x) /\ IsTiny(y)
          THEN (IF x[1] + y[1] = 0 THEN Zero ELSE Tiny(x[1] + y[1]))
          ELSE IF IsTiny(x) THEN (IF IsZero(y) THEN x ELSE y)
          ELSE IF IsTiny(y) THEN (IF IsZero(x) THEN y ELSE x)
          ELSE Rat(x[1] * y[2] + y[1] * x[2], x[2] * y[2]))
    ELSE IF IsNaN(x) \/ IsNaN(y) THEN NaN
    ELSE IF ~IsFinite(x) /\ ~IsFinite(y) THEN (IF x = y THEN x ELSE NaN)
    ELSE IF IsFinite(x) THEN y ELSE x

\* A subtraction with its operands exchanged.
FSubReversed(x, y) == FAdd(y, FNeg(x))

FSub(x, y) == FAdd(x, FNeg(y))

FMul(x, y) ==
    IF IsFinite(x) /\ IsFinite(y)
    THEN (IF IsTiny(x) /\ ~IsTiny(y)
          THEN (IF IsZero(y) THEN Zero
                ELSE CASE (x[1] * y[1]) % y[2] = 0 -> Tiny((x[1] * y[1]) \div y[2]))
          ELSE IF IsTiny(y) /\ ~IsTiny(x)
          THEN (IF IsZero(x) THEN Zero
                ELSE CASE (x[1] * y[1]) % x[2] = 0 -> Tiny((x[1] * y[1]) \div x[2]))
          ELSE Rat(x[1] * y[1], x[2] * y[2]))
    ELSE IF IsNaN(x) \/ IsNaN(y) \/ IsZero(x) \/ IsZero(y) THEN NaN
    ELSE <<Sign(x[1]) * Sign(y[1]), 0>>

FDiv(x, y) ==
    IF IsFinite(x) /\ IsFinite(y)
    THEN (IF IsZero(y) THEN <<Sign(x[1]), 0>>
          ELSE IF IsTiny(x) /\ ~IsTiny(y)
          THEN CASE (x[1] * y[2]) % y[1] = 0 -> Tiny((x[1] * y[2]) \div y[1])
          ELSE Rat(x[1] * y[2], x[2] * y[1]))
    ELSE IF IsNaN(x) \/ IsNaN(y) \/ (~IsFinite(x) /\ ~IsFinite(y)) THEN NaN
    ELSE IF IsFinite(x) THEN Zero
    ELSE <<Sign(x[1]) * (IF y[1] < 0 THEN -1 ELSE 1), 0>>

FAbs(x) == <<Abs(x[1]), x[2]>>

\* x < y and x == y of C doubles (false when either is NaN).
FLt(x, y) ==
    IF IsNaN(x) \/ IsNaN(y) THEN FALSE
    ELSE IF IsFinite(x) /\ IsFinite(y)
    THEN (IF IsTiny(x) /\ IsTiny(y) THEN x[1] < y[1]
          ELSE IF IsTiny(x) THEN (IF IsZero(y) THEN x[1] < 0 ELSE y[1] > 0)
          ELSE IF IsTiny(y) THEN (IF IsZero(x) THEN y[1] > 0 ELSE x[1] < 0)
          ELSE x[1] * y[2] < y[1] * x[2])
    ELSE IF ~IsFinite(x) /\ ~IsFinite(y) THEN x[1] < y[1]
    ELSE IF IsFinite(x) THEN y[1] > 0 ELSE x[1] < 0

FEq(x, y) == ~IsNaN(x) /\ ~IsNaN(y) /\ x = y

\* A division that rounds the quotient toward minus infinity.
FlooredDiv(a, b) == IF b > 0 THEN a \div b ELSE (-a) \div (-b)

\* C integer division and remainder: the quotient is truncated toward zero
\* and the remainder takes the sign of the dividend.
CDiv(a, b) == Sign(a) * Sign(b) * (Abs(a) \div Abs(b))

CMod(a, b) == a - b * CDiv(a, b)

\* fmod(x, y): x - n*y with n the quotient x/y truncated toward zero.
Fmod(x, y) ==
    IF IsNaN(x) \/ IsNaN(y) \/ ~IsFinite(x) \/ IsZero(y) THEN NaN
    ELSE IF ~IsFinite(y) THEN x
    ELSE LET q == FDiv(x, y)
             n == CDiv(q[1], q[2])
         IN  FSub(x, FMul(FromInt(n), y))

RECURSIVE IntPower(_, _)
IntPower(b, e) == IF e = 0 THEN 1 ELSE b * IntPower(b, e - 1)

\* pow(x, y) for a finite x and an integral finite y: pow(x, 0) is 1,
\* pow(0, y) is +inf for y < 0 (the sign of a zero is not modelled), and NaN
\* operands give NaN; other operands are not drawn by the model.
Pow(x, y) ==
    IF IsFinite(y) /\ IsZero(y) THEN One
    ELSE IF IsNaN(x) \/ IsNaN(y) \/ ~IsFinite(x) \/ ~IsFinite(y) \/ y[2] # 1 THEN NaN
    ELSE IF y[1] > 0 THEN Rat(IntPower(x[1], y[1]), IntPower(x[2], y[1]))
    ELSE IF IsZero(x) THEN PosInf
    ELSE Rat(IntPower(x[2], -y[1]), IntPower(x[1], -y[1]))


-----------------------------------------------------------------------------
(* The heap. *)

Ptrs == 1..Len(heap)

IsLive(p) == p \in Ptrs /\ heap[p].kind # "freed"

LiveOf(k) == {p \in Ptrs : heap[p].kind = k}

\* A freed record: its memory is gone and nothing of it may be read.
FreedRec == [kind |-> "freed"]

\* What malloc(n) and calloc(n, s) may return for a buffer of `size'
\* elements: a block, or for size 0 possibly NULL (implementation-defined).
\* Allocation failure of a non-empty block is not modelled.
NullChoices(size) == IF size = 0 THEN {TRUE, FALSE} ELSE {FALSE}

\* The ref_count every constructor stores in a new record.
InitialRefCount == 1

Event(e, p) == [ev |-> e, at |-> p]

\* A call: the function, its pointer arguments, its numeric arguments (a
\* double <<n, d>>, a long <<s>>, a shape <<rows, cols>>) and its text
\* arguments.
Call(op, args, x) == [op |-> op, args |-> args, x |-> x, text |-> <<>>]

CallText(op, text) == [op |-> op, args |-> <<>>, x |-> <<>>, text |-> text]

\* The call returned the pointer `ret' (0 is NULL) or, for a function that
\* returns a number, the value `val'.
Returned(c, ret, val) ==
    [op |-> c.op, args |-> c.args, x |-> c.x, text |-> c.text, ret |-> ret,
     val |-> val, returned |-> TRUE]

\* The call ended in exit(1): nothing was returned.
Exited(c) ==
    [op |-> c.op, args |-> c.args, x |-> c.x, text |-> c.text, ret |-> NULL,
     val |-> Zero, returned |-> FALSE]

NoHist == [retains |-> 0, releases |-> 0, destroys |-> 0]

\* The record `rec' is allocated at a fresh address and returned by call c.
AllocReturn(c, rec, evs) ==
    /\ heap' = Append(heap, rec)
    /\ hist' = Append(hist, NoHist)
    /\ last' = Returned(c, Len(heap) + 1, Zero)
    /\ events' = evs
    /\ UNCHANGED status

\* The call returns without touching the heap.
PureReturn(c, ret, val, evs) ==
    /\ last' = Returned(c, ret, val)
    /\ events' = evs
    /\ UNCHANGED <<heap, hist, status>>

\* fprintf(stderr, ...); exit(1): the process ends, whatever it had
\* allocated is gone with it, and the caller never sees a result.
Fatal(c, evs) ==
    /\ status' = "exited"
    /\ last' = Exited(c)
    /\ events' = Append(evs, Event("exit", NULL))
    /\ UNCHANGED <<heap, hist>>

Running == status = "running"

-----------------------------------------------------------------------------
(* Constructors. *)

\* A record born shared: its count starts at 2.
MatrixRecShared(k, rows, cols, data, dn) ==
    [kind |-> k, ref_count |-> 2, rows |-> rows, cols |-> cols,
     data |-> data, data_null |-> dn]

MatrixRec(k, rows, cols, data, dn) ==
    [kind |-> k, ref_count |-> InitialRefCount, rows |-> rows, cols |-> cols,
     data |-> data, data_null |-> dn]

AllocEvents == <<Event("alloc_rec", NULL), Event("alloc_data", NULL)>>

\* Values an uninitialised double may hold: malloc does not clear the buffer.
IndeterminateDoubles == {Zero, <<7, 1>>}

SeqsOf(S, n) == [1..n -> S]

ZeroC == [re |-> Zero, im |-> Zero]

\* matrix_new(rows, cols): ref_count 1, the shape as given, a buffer of
\* rows * cols doubles whose contents are indeterminate.
matrix_new(rows, cols) ==
    /\ Running
    /\ \E d \in SeqsOf(IndeterminateDoubles, rows * cols), dn \in NullChoices(rows * cols) :
          AllocReturn(Call("matrix_new", <<>>, <<rows, cols>>),
                      MatrixRec("Matrix", rows, cols, d, dn), AllocEvents)

\* intmatrix_new(rows, cols): calloc zero-fills the buffer.
intmatrix_new(rows, cols) ==
    /\ Running
    /\ \E dn \in NullChoices(rows * cols) :
          AllocReturn(Call("intmatrix_new", <<>>, <<rows, cols>>),
                      MatrixRec("IntMatrix", rows, cols, [i \in 1..(rows * cols) |-> 0], dn),
                      AllocEvents)

\* complexmatrix_new(rows, cols): calloc zero-fills the buffer.
complexmatrix_new(rows, cols) ==
    /\ Running
    /\ \E dn \in NullChoices(rows * cols) :
          AllocReturn(Call("complexmatrix_new", <<>>, <<rows, cols>>),
                      MatrixRec("ComplexMatrix", rows, cols,
                                [i \in 1..(rows * cols) |-> ZeroC], dn),
                      AllocEvents)

StringRec(rc, bytes) ==
    [kind |-> "String", ref_count |-> rc, len |-> Len(bytes), data |-> bytes,
     data_null |-> FALSE]

\* The C string argument of str_new: NoText is a NULL char pointer.
NoText == <<"NULL">>

\* str_new(raw_text): ref_count 1; a NULL text gives len 0 and a one-byte
\* buffer holding the terminator, any other text is copied (strlen, strcpy).
\* `data' holds the bytes before the terminator.
str_new(raw_text) ==
    /\ Running
    /\ AllocReturn(CallText("str_new", raw_text),
                   StringRec(InitialRefCount, IF raw_text = NoText THEN <<>> ELSE raw_text),
                   AllocEvents)

\* A closure record as the generated code builds it with brix_malloc:
\* ref_count 1, the code address, the environment block (or NULL) and the
\* environment destructor (or NULL).
closure_new(env_ptr, env_destructor) ==
    /\ Running
    /\ AllocReturn(CallText("closure_new", <<env_ptr, env_destructor>>),
                   [kind |-> "Closure", ref_count |-> InitialRefCount, fn_ptr |-> "code",
                    env_ptr |-> env_ptr, env_destructor |-> env_destructor],
                   <<Event("alloc_rec", NULL)>>)

-----------------------------------------------------------------------------
(* Retain and release. *)

\* A retain that adds two to the count.
RetainRecordTwice(c, p) ==
    /\ heap' = [heap EXCEPT ![p].ref_count = @ + 2]
    /\ hist' = [hist EXCEPT ![p].retains = @ + 1]
    /\ last' = Returned(c, p, Zero)
    /\ events' = <<>>
    /\ UNCHANGED status

\* ref_count++ on the record at p; `return p'.
RetainRecord(c, p) ==
    /\ heap' = [heap EXCEPT ![p].ref_count = @ + 1]
    /\ hist' = [hist EXCEPT ![p].retains = @ + 1]
    /\ last' = Returned(c, p, Zero)
    /\ events' = <<>>
    /\ UNCHANGED status

\* if (!p) return NULL; p->ref_count++; return p;
Retain(op, p) ==
    /\ Running
    /\ IF p = NULL
       THEN PureReturn(Call(op, <<p>>, <<>>), NULL, Zero, <<>>)
       ELSE RetainRecord(Call(op, <<p>>, <<>>), p)

\* Frees in the wrong order: the record first, its buffer after.
BufferFreesRecordFirst(p) ==
    <<Event("free_rec", p)>>
        \o (IF heap[p].data_null THEN <<>> ELSE <<Event("free_data", p)>>)

\* The frees release makes, in order, once the count of the matrix or string
\* at p has reached zero: if (p->data) free(p->data); free(p);
BufferFrees(p) ==
    (IF heap[p].data_null THEN <<>> ELSE <<Event("free_data", p)>>)
        \o <<Event("free_rec", p)>>

\* The destructor called after the environment has been freed.
ClosureFreesEnvFirst(p) ==
    (IF heap[p].env_ptr # "null"
     THEN <<Event("free_env", p)>>
          \o (IF heap[p].env_destructor # "null"
              THEN <<Event("env_destructor", p)>> ELSE <<>>)
     ELSE <<>>)
        \o <<Event("free_rec", p)>>

\* The same for a closure: the destructor (if any) runs on a non-NULL
\* environment, then the environment is freed, then the record; fn_ptr is
\* code and is not freed.
ClosureFrees(p) ==
    (IF heap[p].env_ptr # "null"
     THEN (IF heap[p].env_destructor # "null"
           THEN <<Event("env_destructor", p)>> ELSE <<>>)
          \o <<Event("free_env", p)>>
     ELSE <<>>)
        \o <<Event("free_rec", p)>>

\* The test that decides whether release destroys: the count after the
\* decrement is zero.
ReachedZero(rc) == rc = 0

\* p->ref_count--; if (p->ref_count == 0) { frees }
ReleaseRecord(c, p, frees) ==
    LET rc == heap[p].ref_count - 1
    IN  /\ heap' = [heap EXCEPT ![p] = IF ReachedZero(rc) THEN FreedRec
                                       ELSE [@ EXCEPT !.ref_count = rc]]
        /\ hist' = [hist EXCEPT ![p] =
                       [retains |-> @.retains, releases |-> @.releases + 1,
                        destroys |-> @.destroys + (IF ReachedZero(rc) THEN 1 ELSE 0)]]
        /\ last' = Returned(c, NULL, Zero)
        /\ events' = (IF ReachedZero(rc) THEN frees ELSE <<>>)
        /\ UNCHANGED status

\* if (!p) return; ...
Release(op, p, frees) ==
    /\ Running
    /\ IF p = NULL
       THEN PureReturn(Call(op, <<p>>, <<>>), NULL, Zero, <<>>)
       ELSE ReleaseRecord(Call(op, <<p>>, <<>>), p, frees)

closure_retain(p) == Retain("closure_retain", p)
matrix_retain(p) == Retain("matrix_retain", p)
intmatrix_retain(p) == Retain("intmatrix_retain", p)
complexmatrix_retain(p) == Retain("complexmatrix_retain", p)
string_retain(p) == Retain("string_retain", p)

closure_release(p) ==
    Release("closure_release", p, IF p = NULL THEN <<>> ELSE ClosureFrees(p))
matrix_release(p) ==
    Release("matrix_release", p, IF p = NULL THEN <<>> ELSE BufferFrees(p))
intmatrix_release(p) ==
    Release("intmatrix_release", p, IF p = NULL THEN <<>> ELSE BufferFrees(p))
complexmatrix_release(p) ==
    Release("complexmatrix_release", p, IF p = NULL THEN <<>> ELSE BufferFrees(p))
string_release(p) ==
    Release("string_release", p, IF p = NULL THEN <<>> ELSE BufferFrees(p))

-----------------------------------------------------------------------------
(* The lifetime machine: any sequence of constructions, retains and        *)
(* releases of values that have not been destroyed (a call on a destroyed  *)
(* value is undefined and is not made).                                     *)

\* Shapes and texts the constructors are called with.
NewShapes == {<<0, 0>>, <<1, 1>>}
NewTexts == {NoText, <<"a">>}
EnvPtrs == {"null", "env"}
Destructors == {"null", "dtor"}

RECURSIVE SumRetains(_)
SumRetains(h) == IF h = <<>> THEN 0 ELSE Head(h).retains + SumRetains(Tail(h))

\* Retain is called on a value while the model's bounds allow.
MayRetain(p) == p # NULL => SumRetains(hist) < MaxRetains

OrNull(S) == S \cup {NULL}

Init ==
    /\ heap = <<>>
    /\ hist = <<>>
    /\ last = Returned(Call("init", <<>>, <<>>), NULL, Zero)
    /\ events = <<>>
    /\ status = "running"

Room == Len(heap) < MaxObjs

Next ==
    \/ \E s \in NewShapes : Room /\ matrix_new(s[1], s[2])
    \/ \E s \in NewShapes : Room /\ intmatrix_new(s[1], s[2])
    \/ \E s \in NewShapes : Room /\ complexmatrix_new(s[1], s[2])
    \/ \E t \in NewTexts : Room /\ str_new(t)
    \/ \E e \in EnvPtrs, d \in Destructors : Room /\ closure_new(e, d)
    \/ \E p \in OrNull(LiveOf("Closure")) : MayRetain(p) /\ closure_retain(p)
    \/ \E p \in OrNull(LiveOf("Matrix")) : MayRetain(p) /\ matrix_retain(p)
    \/ \E p \in OrNull(LiveOf("IntMatrix")) : MayRetain(p) /\ intmatrix_retain(p)
    \/ \E p \in OrNull(LiveOf("ComplexMatrix")) : MayRetain(p) /\ complexmatrix_retain(p)
    \/ \E p \in OrNull(LiveOf("String")) : MayRetain(p) /\ string_retain(p)
    \/ \E p \in OrNull(LiveOf("Closure")) : closure_release(p)
    \/ \E p \in OrNull(LiveOf("Matrix")) : matrix_release(p)
    \/ \E p \in OrNull(LiveOf("IntMatrix")) : intmatrix_release(p)
    \/ \E p \in OrNull(LiveOf("ComplexMatrix")) : complexmatrix_release(p)
    \/ \E p \in OrNull(LiveOf("String")) : string_release(p)

Spec == Init /\ [][Next]_vars

-----------------------------------------------------------------------------
(* Properties of the lifetime machine.                                     *)

RetainOps == {"closure_retain", "matrix_retain", "intmatrix_retain",
              "complexmatrix_retain", "string_retain"}

ReleaseOps == {"closure_release", "matrix_release", "intmatrix_release",
               "complexmatrix_release", "string_release"}

\* Positions in the event list `evs' of the events named e.
Positions(evs, e) == {i \in 1..Len(evs) : evs[i].ev = e}

\* Every event named a comes before every event named b.
Precedes(evs, a, b) == \A i \in Positions(evs, a), j \in Positions(evs, b) : i < j

\* The step is a call of one of `ops' on the pointer it was handed.
StepOf(ops) == last'.op \in ops

\* C3: retain of any of the five types, called on a value, adds exactly one
\* to its ref_count, leaves every other field and every other record as it
\* was, and returns the pointer it was given; called on NULL it returns NULL
\* and changes nothing.
RetainAddsOne ==
    [][StepOf(RetainOps) =>
          LET p == last'.args[1]
          IN  /\ last'.returned
              /\ last'.ret = p
              /\ status' = status
              /\ events' = <<>>
              /\ IF p = NULL THEN heap' = heap
                 ELSE heap' = [heap EXCEPT ![p].ref_count = heap[p].ref_count + 1]]_vars

\* A retain has just returned a value whose count it raised above one.
RetainedValue ==
    /\ last.op \in RetainOps
    /\ last.ret # NULL
    /\ IsLive(last.ret)
    /\ heap[last.ret].ref_count = InitialRefCount + 1

\* The owned sub-resource of the record r, if it has one.
OwnsBuffer(r) ==
    IF r.kind = "Closure" THEN r.env_ptr # "null" ELSE ~r.data_null

\* C4: release of any of the five types, called on a value, takes exactly
\* one from its ref_count.  If and only if the new count is zero the value
\* is destroyed: the owned buffer or environment is freed first, the record
\* is freed last and once.  Otherwise nothing is freed.  Release of NULL
\* does nothing.
ReleaseTakesOne ==
    [][StepOf(ReleaseOps) =>
          LET p == last'.args[1]
          IN  /\ status' = status
              /\ IF p = NULL THEN heap' = heap /\ events' = <<>>
                 ELSE IF heap[p].ref_count - 1 = 0
                 THEN /\ heap' = [heap EXCEPT ![p] = FreedRec]
                      /\ Cardinality(Positions(events', "free_rec")) = 1
                      /\ events'[Len(events')] = Event("free_rec", p)
                      /\ Precedes(events', "free_data", "free_rec")
                      /\ Precedes(events', "free_env", "free_rec")
                      /\ OwnsBuffer(heap[p]) =>
                            Cardinality(Positions(events', "free_data")
                                        \cup Positions(events', "free_env")) = 1
                      /\ ~OwnsBuffer(heap[p]) =>
                            Positions(events', "free_data")
                                \cup Positions(events', "free_env") = {}
                 ELSE /\ heap' = [heap EXCEPT ![p].ref_count = heap[p].ref_count - 1]
                      /\ events' = <<>>]_vars

\* A release has just destroyed a value: buffer first, record second.
ReleasedToZero ==
    /\ last.op \in ReleaseOps
    /\ Len(events) = 2
    /\ events[1].ev \in {"free_data", "free_env"}
    /\ events[2].ev = "free_rec"
    /\ heap[events[2].at] = FreedRec

\* The count a value must hold: the one of its creation, plus its retains,
\* minus its releases.
CountsBalance(p) ==
    IF IsLive(p)
    THEN /\ heap[p].ref_count = InitialRefCount + hist[p].retains - hist[p].releases
         /\ hist[p].releases <= hist[p].retains
         /\ hist[p].destroys = 0
    ELSE /\ hist[p].releases = hist[p].retains + 1
         /\ hist[p].destroys = 1

\* The step releases the value that the call before it retained.
ReleaseAfterRetain ==
    /\ last.op \in RetainOps
    /\ last.ret # NULL
    /\ last'.op \in ReleaseOps
    /\ last'.args = last.args

\* For a value made by a constructor: a retain immediately followed by a
\* release gives the value back the count it had before the retain and does
\* not destroy it; the value is alive as long as it has been released at
\* most as often as retained, and is destroyed exactly once, by release
\* number N + 1 when it was retained N times.
RetainReleaseBalance ==
    /\ [](\A p \in Ptrs : CountsBalance(p))
    /\ [][ReleaseAfterRetain =>
             LET p == last.ret
             IN  /\ heap'[p] # FreedRec
                 /\ heap'[p].ref_count = heap[p].ref_count - 1
                 /\ heap'[p].ref_count =
                       InitialRefCount + (hist[p].retains - 1) - hist[p].releases]_vars

\* C6: in every reachable state every record that has not been freed has
\* ref_count >= 1.
LiveCountPositive == \A p \in Ptrs : IsLive(p) => heap[p].ref_count >= 1

\* What a closure_release step that destroys the closure at p must do with a
\* destructor, the function pointer and the environment, by the time the
\* record is freed.
DestructorRunsOnce(evs) ==
    /\ Cardinality(Positions(evs, "env_destructor")) = 1
    /\ Precedes(evs, "env_destructor", "free_env")
    /\ Precedes(evs, "env_destructor", "free_rec")

OnlyEnvAndRecordFreed(evs) ==
    /\ \A i \in 1..Len(evs) : evs[i].ev \in {"free_env", "free_rec"}
    /\ Cardinality(Positions(evs, "free_rec")) = 1

\* No step other than a destroying closure_release runs a destructor, and no
\* step frees code.
NoStrayDestructor ==
    /\ Positions(events', "free_fn") = {}
    /\ (~(last'.op = "closure_release" /\ last'.args[1] # NULL
          /\ heap[last'.args[1]].ref_count - 1 = 0))
          => Positions(events', "env_destructor") = {}

-----------------------------------------------------------------------------
(* The arithmetic engine: elementwise operators on Matrix and IntMatrix.   *)

Size(m) == heap[m].rows * heap[m].cols

\* The buffers a result may hold when element i may be any member of
\* choices[i] (one member, unless the element is computed by undefined
\* behaviour).
RECURSIVE BuffersOf(_)
BuffersOf(choices) ==
    IF choices = <<>> THEN {<<>>}
    ELSE {<<e>> \o d : e \in Head(choices), d \in BuffersOf(Tail(choices))}

\* An operator that works in place: the result is stored in the first
\* operand, which is returned.
ReturnFirstOperand(c, k, rows, cols, choices) ==
    IF c.args = <<>> \/ heap[c.args[1]].kind # k \/ rows * cols # Len(heap[c.args[1]].data)
    THEN \E d \in BuffersOf(choices), dn \in NullChoices(rows * cols) :
            AllocReturn(c, MatrixRec(k, rows, cols, d, dn), AllocEvents)
    ELSE \E d \in BuffersOf(choices) :
            /\ heap' = [heap EXCEPT ![c.args[1]].data = d]
            /\ last' = Returned(c, c.args[1], Zero)
            /\ events' = <<>>
            /\ UNCHANGED <<hist, status>>

\* Matrix *result = matrix_new(rows, cols) (or intmatrix_new); the loop
\* stores every element; return result.
ReturnNew(c, k, rows, cols, choices) ==
    \E d \in BuffersOf(choices), dn \in NullChoices(rows * cols) :
        AllocReturn(c, MatrixRec(k, rows, cols, d, dn), AllocEvents)

\* A check that compares only the number of elements.
SizeMismatch(m1, m2) == heap[m1].rows * heap[m1].cols # heap[m2].rows * heap[m2].cols

\* if (m1->rows != m2->rows || m1->cols != m2->cols) of the matrix-with-
\* matrix operators.
DimensionsMismatch(m1, m2) ==
    heap[m1].rows # heap[m2].rows \/ heap[m1].cols # heap[m2].cols

\* A test that looks at the first element only.
FirstIsZero(m) ==
    /\ Size(m) > 0
    /\ IF heap[m].kind = "IntMatrix" THEN heap[m].data[1] = 0 ELSE IsZero(heap[m].data[1])

\* The loop of an elementwise division or modulo meets a zero divisor
\* element (m->data[i] == 0.0, or == 0 for an IntMatrix) at some i < size.
HasZero(m) ==
    \E i \in 1..Size(m) :
        IF heap[m].kind = "IntMatrix" THEN heap[m].data[i] = 0 ELSE IsZero(heap[m].data[i])

\* Values a long may hold when it is read without having been given one
\* (an undefined conversion, a field of a malloc'ed record never assigned).
IndeterminateLongs == {-1, 0, 1}

\* (long)pow((double)a, (double)b): the power as a double, truncated toward
\* zero; the conversion of an infinity or a NaN is undefined.
IntPow(a, b) ==
    LET p == Pow(FromInt(a), FromInt(b))
    IN  IF IsFinite(p) THEN {CDiv(p[1], p[2])} ELSE IndeterminateLongs

\* a / b and a % b of C longs as the loops compute them; the behaviour with
\* a zero divisor is undefined.
IntQuot(a, b) == IF b = 0 THEN IndeterminateLongs ELSE {CDiv(a, b)}
IntRem(a, b) == IF b = 0 THEN IndeterminateLongs ELSE {CMod(a, b)}

\* The values the expression `a op b' of an elementwise loop may store, for
\* doubles (k = "Matrix") and for longs (k = "IntMatrix").
Elem(k, op, a, b) ==
    IF k = "Matrix"
    THEN CASE op = "add" -> {FAdd(a, b)}
           [] op = "sub" -> {FSub(a, b)}
           [] op = "mul" -> {FMul(a, b)}
           [] op = "div" -> {FDiv(a, b)}
           [] op = "mod" -> {Fmod(a, b)}
           [] op = "pow" -> {Pow(a, b)}
    ELSE CASE op = "add" -> {a + b}
           [] op = "sub" -> {a - b}
           [] op = "mul" -> {a * b}
           [] op = "div" -> IntQuot(a, b)
           [] op = "mod" -> IntRem(a, b)
           [] op = "pow" -> IntPow(a, b)

\* A NULL check that reports the error to the caller by returning NULL.
NullOperandReturnsNull(c) == PureReturn(c, NULL, Zero, <<>>)

\* if (m == NULL) { fprintf(stderr, ...); exit(1); }: the first statement of
\* every operator, before any field of the operand is read and before the
\* result is allocated.
NullOperand(c) == Fatal(c, <<>>)

\* A matrix-with-scalar operator: NULL check, the scalar's zero check where
\* the operator has one (zeroScalar), then the result is allocated and
\* filled with m[i] op scalar, or scalar op m[i] when the scalar comes first.
ScalarOp(name, k, m, scalar, op, scalarFirst, zeroScalar) ==
    LET c == Call(name, <<m>>, IF k = "IntMatrix" THEN <<scalar>> ELSE scalar)
    IN  /\ Running
        /\ IF m = NULL THEN NullOperand(c)
           ELSE IF zeroScalar THEN Fatal(c, <<>>)
           ELSE ReturnNew(c, k, heap[m].rows, heap[m].cols,
                          [i \in 1..Size(m) |->
                              IF scalarFirst THEN Elem(k, op, scalar, heap[m].data[i])
                              ELSE Elem(k, op, heap[m].data[i], scalar)])

\* A matrix-with-matrix operator: NULL check, dimension check, the result is
\* allocated, and (division and modulo: checksZero) the loop exits the
\* process at the first zero element of m2.
MatrixOp(name, k, m1, m2, op, checksZero) ==
    LET c == Call(name, <<m1, m2>>, <<>>)
    IN  /\ Running
        /\ IF m1 = NULL \/ m2 = NULL THEN NullOperand(c)
           ELSE IF DimensionsMismatch(m1, m2) THEN Fatal(c, <<>>)
           ELSE IF checksZero /\ HasZero(m2) THEN Fatal(c, AllocEvents)
           ELSE ReturnNew(c, k, heap[m1].rows, heap[m1].cols,
                          [i \in 1..Size(m1) |->
                              Elem(k, op, heap[m1].data[i], heap[m2].data[i])])

matrix_add_scalar(m, scalar) ==
    ScalarOp("matrix_add_scalar", "Matrix", m, scalar, "add", FALSE, FALSE)
matrix_sub_scalar(m, scalar) ==
    ScalarOp("matrix_sub_scalar", "Matrix", m, scalar, "sub", FALSE, FALSE)
scalar_sub_matrix(scalar, m) ==
    ScalarOp("scalar_sub_matrix", "Matrix", m, scalar, "sub", TRUE, FALSE)
matrix_mul_scalar(m, scalar) ==
    ScalarOp("matrix_mul_scalar", "Matrix", m, scalar, "mul", FALSE, FALSE)
matrix_div_scalar(m, scalar) ==
    ScalarOp("matrix_div_scalar", "Matrix", m, scalar, "div", FALSE, IsZero(scalar))
matrix_mod_scalar(m, scalar) ==
    ScalarOp("matrix_mod_scalar", "Matrix", m, scalar, "mod", FALSE, IsZero(scalar))
matrix_pow_scalar(m, scalar) ==
    ScalarOp("matrix_pow_scalar", "Matrix", m, scalar, "pow", FALSE, FALSE)

\* scalar / Matrix: NULL check, the result is allocated, and the loop exits
\* the process at the first zero element of m.
scalar_div_matrix(scalar, m) ==
    LET c == Call("scalar_div_matrix", <<m>>, scalar)
    IN  /\ Running
        /\ IF m = NULL THEN NullOperand(c)
           ELSE IF HasZero(m) THEN Fatal(c, AllocEvents)
           ELSE ReturnNew(c, "Matrix", heap[m].rows, heap[m].cols,
                          [i \in 1..Size(m) |-> Elem("Matrix", "div", scalar, heap[m].data[i])])

matrix_add_matrix(m1, m2) == MatrixOp("matrix_add_matrix", "Matrix", m1, m2, "add", FALSE)
matrix_sub_matrix(m1, m2) == MatrixOp("matrix_sub_matrix", "Matrix", m1, m2, "sub", FALSE)
matrix_mul_matrix(m1, m2) == MatrixOp("matrix_mul_matrix", "Matrix", m1, m2, "mul", FALSE)
matrix_div_matrix(m1, m2) == MatrixOp("matrix_div_matrix", "Matrix", m1, m2, "div", TRUE)
matrix_mod_matrix(m1, m2) == MatrixOp("matrix_mod_matrix", "Matrix", m1, m2, "mod", TRUE)
matrix_pow_matrix(m1, m2) == MatrixOp("matrix_pow_matrix", "Matrix", m1, m2, "pow", FALSE)

intmatrix_add_scalar(m, scalar) ==
    ScalarOp("intmatrix_add_scalar", "IntMatrix", m, scalar, "add", FALSE, FALSE)
intmatrix_sub_scalar(m, scalar) ==
    ScalarOp("intmatrix_sub_scalar", "IntMatrix", m, scalar, "sub", FALSE, FALSE)
scalar_sub_intmatrix(scalar, m) ==
    ScalarOp("scalar_sub_intmatrix", "IntMatrix", m, scalar, "sub", TRUE, FALSE)
intmatrix_mul_scalar(m, scalar) ==
    ScalarOp("intmatrix_mul_scalar", "IntMatrix", m, scalar, "mul", FALSE, FALSE)
intmatrix_div_scalar(m, scalar) ==
    ScalarOp("intmatrix_div_scalar", "IntMatrix", m, scalar, "div", FALSE, scalar = 0)
intmatrix_mod_scalar(m, scalar) ==
    ScalarOp("intmatrix_mod_scalar", "IntMatrix", m, scalar, "mod", FALSE, scalar = 0)
intmatrix_pow_scalar(m, scalar) ==
    ScalarOp("intmatrix_pow_scalar", "IntMatrix", m, scalar, "pow", FALSE, FALSE)

intmatrix_add_intmatrix(m1, m2) ==
    MatrixOp("intmatrix_add_intmatrix", "IntMatrix", m1, m2, "add", FALSE)
intmatrix_sub_intmatrix(m1, m2) ==
    MatrixOp("intmatrix_sub_intmatrix", "IntMatrix", m1, m2, "sub", FALSE)
intmatrix_mul_intmatrix(m1, m2) ==
    MatrixOp("intmatrix_mul_intmatrix", "IntMatrix", m1, m2, "mul", FALSE)
intmatrix_div_intmatrix(m1, m2) ==
    MatrixOp("intmatrix_div_intmatrix", "IntMatrix", m1, m2, "div", TRUE)
intmatrix_mod_intmatrix(m1, m2) ==
    MatrixOp("intmatrix_mod_intmatrix", "IntMatrix", m1, m2, "mod", TRUE)
intmatrix_pow_intmatrix(m1, m2) ==
    MatrixOp("intmatrix_pow_intmatrix", "IntMatrix", m1, m2, "pow", FALSE)

\* intmatrix_to_matrix(im): NULL check, then every long is converted to a
\* double (exact for the magnitudes the model draws).
intmatrix_to_matrix(im) ==
    LET c == Call("intmatrix_to_matrix", <<im>>, <<>>)
    IN  /\ Running
        /\ IF im = NULL THEN NullOperand(c)
           ELSE ReturnNew(c, "Matrix", heap[im].rows, heap[im].cols,
                          [i \in 1..Size(im) |-> {FromInt(heap[im].data[i])}])

-----------------------------------------------------------------------------
(* The linear-algebra kernel.                                               *)

\* Element (r, c), counted from 0 as in the C code, of the row-major buffer
\* a whose rows are w long.
At(a, w, r, c) == a[r * w + c + 1]

RowOf(x, w) == (x - 1) \div w
ColOf(x, w) == (x - 1) % w

\* The array a as it lies in memory: every element computed and stored.
Stored(a) == a \o <<>>

TmpAlloc == <<Event("alloc_tmp", NULL)>>
TmpFree == <<Event("free_tmp", NULL)>>

\* The exchange matrix: 1.0 on the anti-diagonal and 0.0 off it.
ExchangeMatrix(n) ==
    /\ Running
    /\ ReturnNew(Call("brix_eye", <<>>, <<n>>), "Matrix", n, n,
                 [x \in 1..(n * n) |->
                     {IF RowOf(x, n) + ColOf(x, n) = n - 1 THEN One ELSE Zero}])

\* brix_eye(n): matrix_new(n, n) filled with 1.0 on the diagonal and 0.0 off
\* it.
brix_eye(n) ==
    /\ Running
    /\ ReturnNew(Call("brix_eye", <<>>, <<n>>), "Matrix", n, n,
                 [x \in 1..(n * n) |-> {IF RowOf(x, n) = ColOf(x, n) THEN One ELSE Zero}])

\* A transposition that exchanges rows and cols and leaves the elements in
\* the order they had.
TransposeShapeOnly(m) ==
    /\ Running
    /\ ReturnNew(Call("brix_tr", <<m>>, <<>>), "Matrix", heap[m].cols, heap[m].rows,
                 [x \in 1..Size(m) |-> {heap[m].data[x]}])

\* brix_tr(m): matrix_new(m->cols, m->rows) with
\* result[j * rows + i] = m[i * cols + j].
brix_tr(m) ==
    LET rows == heap[m].rows
        cols == heap[m].cols
    IN  /\ Running
        /\ ReturnNew(Call("brix_tr", <<m>>, <<>>), "Matrix", cols, rows,
                     [x \in 1..(rows * cols) |->
                         {At(heap[m].data, cols, ColOf(x, rows), RowOf(x, rows))}])

\* 1e-10 is 1 / (PivotScale * PivotScale).
PivotScale == 100000

\* fabs(x) < 1e-10, computed without leaving the range of the integers.
PivotTooSmall(x) ==
    \/ IsTiny(x)
    \/ /\ IsFinite(x)
       /\ Abs(x[1]) <= (x[2] - 1) \div PivotScale
       /\ Abs(x[1]) * PivotScale <= (x[2] - 1) \div PivotScale

\* The pivot search: the first row j in i..n-1 whose |a[j][i]| is largest
\* (a later row replaces the pivot only when strictly larger).
RECURSIVE FindPivot(_, _, _, _, _, _)
FindPivot(a, w, n, i, j, pivot) ==
    IF j >= n THEN pivot
    ELSE FindPivot(a, w, n, i, j + 1,
                   IF FLt(FAbs(At(a, w, pivot, i)), FAbs(At(a, w, j, i))) THEN j ELSE pivot)

SwapRows(a, w, i, p) ==
    Stored(
        [x \in DOMAIN a |->
            IF RowOf(x, w) = i THEN At(a, w, p, ColOf(x, w))
            ELSE IF RowOf(x, w) = p THEN At(a, w, i, ColOf(x, w))
            ELSE a[x]])

\* brix_det's elimination of column i: every row j > i loses factor times
\* row i in the columns k >= i, with factor = a[j][i] / a[i][i].
DetEliminate(a, n, i) ==
    Stored(
        [x \in DOMAIN a |->
            IF RowOf(x, n) > i /\ ColOf(x, n) >= i
            THEN FSub(a[x], FMul(FDiv(At(a, n, RowOf(x, n), i), At(a, n, i, i)),
                                 At(a, n, i, ColOf(x, n))))
            ELSE a[x]])

\* The loop without `det *= -1.0' after a row swap.
RECURSIVE DetLoopNoSignFlip(_, _, _, _)
DetLoopNoSignFlip(a, n, i, det) ==
    IF i >= n THEN det
    ELSE LET pivot == FindPivot(a, n, n, i, i + 1, i)
             b == IF pivot # i THEN SwapRows(a, n, i, pivot) ELSE a
         IN  IF PivotTooSmall(At(b, n, i, i)) THEN Zero
             ELSE DetLoopNoSignFlip(DetEliminate(b, n, i), n, i + 1,
                                    FMul(det, At(b, n, i, i)))

\* The loop of brix_det from column i on, with the copy a and the running
\* product det.
RECURSIVE DetLoop(_, _, _, _)
DetLoop(a, n, i, det) ==
    IF i >= n THEN det
    ELSE LET pivot == FindPivot(a, n, n, i, i + 1, i)
             b == IF pivot # i THEN SwapRows(a, n, i, pivot) ELSE a
             d == IF pivot # i THEN FMul(det, FNeg(One)) ELSE det
         IN  IF PivotTooSmall(At(b, n, i, i)) THEN Zero
             ELSE DetLoop(DetEliminate(b, n, i), n, i + 1, FMul(d, At(b, n, i, i)))

\* The number brix_det(m) returns.
Det(m) ==
    LET n == heap[m].rows
        a == heap[m].data
    IN  IF heap[m].rows # heap[m].cols THEN Zero
        ELSE IF n = 1 THEN a[1]
        ELSE IF n = 2 THEN FSub(FMul(a[1], a[4]), FMul(a[2], a[3]))
        ELSE DetLoop(a, n, 0, One)

\* A determinant that treats a matrix that is not square as the arithmetic
\* operators treat a bad operand.
DetFatalOnNonSquare(m) ==
    /\ Running
    /\ IF heap[m].rows # heap[m].cols THEN Fatal(Call("brix_det", <<m>>, <<>>), <<>>)
       ELSE PureReturn(Call("brix_det", <<m>>, <<>>), NULL, Det(m),
                       IF heap[m].rows \notin {1, 2} THEN TmpAlloc \o TmpFree ELSE <<>>)

\* brix_det(m): works on a private copy of the buffer (orders other than 1
\* and 2) and returns a double.
brix_det(m) ==
    /\ Running
    /\ PureReturn(Call("brix_det", <<m>>, <<>>), NULL, Det(m),
                  IF heap[m].rows = heap[m].cols /\ heap[m].rows \notin {1, 2}
                  THEN TmpAlloc \o TmpFree ELSE <<>>)

\* The augmented matrix [A | I] of brix_inv, 2n wide.
Augmented(a, n) ==
    Stored(
        [x \in 1..(2 * n * n) |->
            IF ColOf(x, 2 * n) < n THEN At(a, n, RowOf(x, 2 * n), ColOf(x, 2 * n))
            ELSE IF RowOf(x, 2 * n) = ColOf(x, 2 * n) - n THEN One ELSE Zero])

\* Row i divided by pivot_val = aug[i][i].
ScaleRow(aug, n, i) ==
    Stored(
        [x \in DOMAIN aug |->
            IF RowOf(x, 2 * n) = i THEN FDiv(aug[x], At(aug, 2 * n, i, i)) ELSE aug[x]])

\* An elimination that clears the column below the pivot only.
EliminateBelow(aug, n, i) ==
    Stored(
        [x \in DOMAIN aug |->
            IF RowOf(x, 2 * n) > i
            THEN FSub(aug[x], FMul(At(aug, 2 * n, RowOf(x, 2 * n), i),
                                   At(aug, 2 * n, i, ColOf(x, 2 * n))))
            ELSE aug[x]])

\* Every row j # i loses aug[j][i] times row i.
InvEliminate(aug, n, i) ==
    Stored(
        [x \in DOMAIN aug |->
            IF RowOf(x, 2 * n) # i
            THEN FSub(aug[x], FMul(At(aug, 2 * n, RowOf(x, 2 * n), i),
                                   At(aug, 2 * n, i, ColOf(x, 2 * n))))
            ELSE aug[x]])

\* The Gauss-Jordan loop of brix_inv from column i on: the reduced matrix,
\* or singular as soon as a pivot is below 1e-10.
RECURSIVE InvLoop(_, _, _)
InvLoop(aug, n, i) ==
    IF i >= n THEN [singular |-> FALSE, aug |-> aug]
    ELSE LET pivot == FindPivot(aug, 2 * n, n, i, i + 1, i)
             b == IF pivot # i THEN SwapRows(aug, 2 * n, i, pivot) ELSE aug
         IN  IF PivotTooSmall(At(b, 2 * n, i, i)) THEN [singular |-> TRUE, aug |-> b]
             ELSE InvLoop(InvEliminate(ScaleRow(b, n, i), n, i), n, i + 1)

\* An inverse that ends the process on a singular matrix.
InvFatalOnSingular(m) ==
    LET c == Call("brix_inv", <<m>>, <<>>)
        n == heap[m].rows
        r == InvLoop(Augmented(heap[m].data, n), n, 0)
    IN  /\ Running
        /\ IF heap[m].rows # heap[m].cols THEN PureReturn(c, NULL, Zero, <<>>)
           ELSE IF r.singular THEN Fatal(c, TmpAlloc)
           ELSE \E dn \in NullChoices(n * n) :
                   AllocReturn(c,
                               MatrixRec("Matrix", n, n,
                                         [x \in 1..(n * n) |->
                                             At(r.aug, 2 * n, RowOf(x, n), n + ColOf(x, n))],
                                         dn),
                               TmpAlloc \o AllocEvents \o TmpFree)

\* brix_inv(m): NULL for a matrix that is not square or is found singular;
\* otherwise matrix_new(n, n) filled from the right half of the reduced
\* augmented matrix.
brix_inv(m) ==
    LET c == Call("brix_inv", <<m>>, <<>>)
        n == heap[m].rows
        r == InvLoop(Augmented(heap[m].data, n), n, 0)
    IN  /\ Running
        /\ IF heap[m].rows # heap[m].cols THEN PureReturn(c, NULL, Zero, <<>>)
           ELSE IF r.singular THEN PureReturn(c, NULL, Zero, TmpAlloc \o TmpFree)
           ELSE \E dn \in NullChoices(n * n) :
                   AllocReturn(c,
                               MatrixRec("Matrix", n, n,
                                         [x \in 1..(n * n) |->
                                             At(r.aug, 2 * n, RowOf(x, n), n + ColOf(x, n))],
                                         dn),
                               TmpAlloc \o AllocEvents \o TmpFree)

-----------------------------------------------------------------------------
(* The eigenvalue wrappers around LAPACK's dgeev.                           *)

\* The imaginary parts dgeev may report for n eigenvalues: each is real
\* (0), or the first (+1) and second (-1) of a complex-conjugate pair in
\* adjacent positions.
RECURSIVE ConjugatePatterns(_)
ConjugatePatterns(n) ==
    IF n = 0 THEN {<<>>}
    ELSE {<<Zero>> \o w : w \in ConjugatePatterns(n - 1)}
         \cup (IF n >= 2
               THEN {<<One, FNeg(One)>> \o w : w \in ConjugatePatterns(n - 2)}
               ELSE {})

\* The column-major array vr the solver fills: the model gives every cell a
\* value of its own, so that a result element tells which cell it was
\* copied from.
SolverVr(n) == [k \in 1..(n * n) |-> FromInt(k)]

\* dgeev_ is external: the model lets it report failure (info = 1), or
\* success with any conjugate pattern wi, real parts wr that differ from
\* eigenvalue to eigenvalue except within a pair, and a column-major vr
\* whose entries are all different.
DgeevOutcomes(n) ==
    {[info |-> 1, wr |-> <<>>, wi |-> <<>>, vr |-> <<>>]}
    \cup {[info |-> 0,
           wr |-> [i \in 1..n |-> IF w[i] = FNeg(One) THEN FromInt(i - 1) ELSE FromInt(i)],
           wi |-> w,
           vr |-> SolverVr(n)] : w \in ConjugatePatterns(n)}

\* A wrapper that calls the solver once, on a workspace it sized itself.
DgeevEventsNoQuery(outs) ==
    [i \in 1..(1 + outs) |-> Event("alloc_tmp", NULL)]
        \o <<Event("alloc_tmp", NULL), Event("dgeev", NULL)>>

\* if (info != 0) after the computation: the solver reported failure.
SolverFailed == <<Event("info_nonzero", NULL)>>

\* The two calls of dgeev_ (workspace query with lwork = -1, then the
\* computation) and the buffers around them; `outs' is the number of output
\* arrays (wr, wi and, for eigenvectors, vr).
DgeevEvents(outs) ==
    [i \in 1..(1 + outs) |-> Event("alloc_tmp", NULL)]
        \o <<Event("dgeev_query", NULL), Event("alloc_tmp", NULL), Event("dgeev", NULL)>>

FreeEvents(k) == [i \in 1..k |-> Event("free_tmp", NULL)]

\* brix_eigvals(A): exit(1) unless A is square or if dgeev reports failure;
\* otherwise complexmatrix_new(n, 1) holding (wr[i], wi[i]).
brix_eigvals(A) ==
    LET c == Call("brix_eigvals", <<A>>, <<>>)
        n == heap[A].rows
    IN  /\ Running
        /\ IF heap[A].rows # heap[A].cols THEN Fatal(c, <<>>)
           ELSE \E o \in DgeevOutcomes(n) :
                   IF o.info # 0 THEN Fatal(c, DgeevEvents(2) \o SolverFailed)
                   ELSE \E dn \in NullChoices(n) :
                           AllocReturn(c,
                                       MatrixRec("ComplexMatrix", n, 1,
                                                 [i \in 1..n |-> [re |-> o.wr[i], im |-> o.wi[i]]],
                                                 dn),
                                       DgeevEvents(2) \o AllocEvents \o FreeEvents(4))

\* What the pairing loop tests, reads and writes from column col on, in
\* order: the outcome of wi[col] == 0.0, the columns of vr read and the
\* columns of the result written in that round.
RECURSIVE EigvecsAccesses(_, _, _)
EigvecsAccesses(n, wi, col) ==
    IF col >= n THEN <<>>
    ELSE IF FEq(wi[col + 1], Zero)
    THEN <<Event("wi_zero", col), Event("read_vr", col), Event("write_col", col)>>
             \o EigvecsAccesses(n, wi, col + 1)
    ELSE <<Event("wi_nonzero", col), Event("read_vr", col), Event("read_vr", col + 1),
           Event("write_col", col), Event("write_col", col + 1)>>
             \o EigvecsAccesses(n, wi, col + 2)

\* A pairing loop that gives both columns of a pair the same imaginary part.
RECURSIVE EigvecsLoopNoConjugate(_, _, _, _, _)
EigvecsLoopNoConjugate(n, wi, vr, col, data) ==
    IF col >= n THEN data
    ELSE IF FEq(wi[col + 1], Zero)
    THEN EigvecsLoopNoConjugate(n, wi, vr, col + 1,
             [x \in DOMAIN data |->
                 IF ColOf(x, n) = col
                 THEN [re |-> vr[col * n + RowOf(x, n) + 1], im |-> Zero]
                 ELSE data[x]])
    ELSE EigvecsLoopNoConjugate(n, wi, vr, col + 2,
             [x \in DOMAIN data |->
                 IF ColOf(x, n) \in {col, col + 1}
                 THEN [re |-> vr[col * n + RowOf(x, n) + 1],
                       im |-> vr[(col + 1) * n + RowOf(x, n) + 1]]
                 ELSE data[x]])

\* The pairing loop of brix_eigvecs from column col on: a real eigenvalue
\* takes column col of vr with imaginary part 0; a complex one takes columns
\* col and col + 1 as real and imaginary part, and fills column col + 1 with
\* the conjugate.
RECURSIVE EigvecsLoop(_, _, _, _, _)
EigvecsLoop(n, wi, vr, col, data) ==
    IF col >= n THEN data
    ELSE IF FEq(wi[col + 1], Zero)
    THEN EigvecsLoop(n, wi, vr, col + 1,
             [x \in DOMAIN data |->
                 IF ColOf(x, n) = col
                 THEN [re |-> vr[col * n + RowOf(x, n) + 1], im |-> Zero]
                 ELSE data[x]])
    ELSE EigvecsLoop(n, wi, vr, col + 2,
             [x \in DOMAIN data |->
                 IF ColOf(x, n) = col
                 THEN [re |-> vr[col * n + RowOf(x, n) + 1],
                       im |-> vr[(col + 1) * n + RowOf(x, n) + 1]]
                 ELSE IF ColOf(x, n) = col + 1
                 THEN [re |-> vr[col * n + RowOf(x, n) + 1],
                       im |-> FNeg(vr[(col + 1) * n + RowOf(x, n) + 1])]
                 ELSE data[x]])

\* brix_eigvecs(A): as brix_eigvals, but the result is complexmatrix_new(n, n)
\* filled by the pairing loop.
brix_eigvecs(A) ==
    LET c == Call("brix_eigvecs", <<A>>, <<>>)
        n == heap[A].rows
    IN  /\ Running
        /\ IF heap[A].rows # heap[A].cols THEN Fatal(c, <<>>)
           ELSE \E o \in DgeevOutcomes(n) :
                   IF o.info # 0 THEN Fatal(c, DgeevEvents(3) \o SolverFailed)
                   ELSE \E dn \in NullChoices(n * n) :
                           AllocReturn(c,
                                       MatrixRec("ComplexMatrix", n, n,
                                                 EigvecsLoop(n, o.wi, o.vr, 0,
                                                             [x \in 1..(n * n) |-> ZeroC]),
                                                 dn),
                                       DgeevEvents(3) \o AllocEvents
                                           \o EigvecsAccesses(n, o.wi, 0) \o FreeEvents(5))

-----------------------------------------------------------------------------
(* The call machine: one call of a numeric function on operands that the   *)
(* caller holds.                                                            *)

\* Elements and scalars the operands are built from.
FloatElems == {Zero, <<3, 1>>}
FloatScalars == {Zero, <<-2, 1>>}
IntElems == {0, -3}
IntScalars == {0, 2}
SquareElems == {Zero, One, <<2, 1>>, <<3, 1>>, <<4, 1>>}

OperandShapes ==
    {s \in (0..MaxDim) \X (0..MaxDim) : s[1] * s[2] <= MaxElems}

\* A matrix some earlier code built and filled; it is held ref_count times.
Operand(k, rc, rows, cols, data) ==
    [kind |-> k, ref_count |-> rc, rows |-> rows, cols |-> cols, data |-> data,
     data_null |-> FALSE]

Operands(k, rc, elems) ==
    UNION {{Operand(k, rc, s[1], s[2], d) : d \in SeqsOf(elems, s[1] * s[2])} :
              s \in OperandShapes}

\* The rows a square operand of order n >= 3 is made of: the zero row, the
\* unit rows and the row of ones.
SquareRows(n) ==
    {[j \in 1..n |-> Zero], [j \in 1..n |-> One]}
        \cup {[j \in 1..n |-> IF j = i THEN One ELSE Zero] : i \in 1..n}

Flatten(rows, n) == [x \in 1..(n * n) |-> rows[RowOf(x, n) + 1][ColOf(x, n) + 1]]

SquareOperands ==
    UNION {IF n <= 2
           THEN {Operand("Matrix", 1, n, n, d) : d \in SeqsOf(SquareElems, n * n)}
           ELSE {Operand("Matrix", 1, n, n, Flatten(r, n)) : r \in SeqsOf(SquareRows(n), n)} :
              n \in 0..MaxN}

\* The caller's values before the call: two Float matrices, two Integer
\* matrices (the first of each pair shared by two holders), or one square
\* Float matrix.
InitOps ==
    /\ \/ \E a \in Operands("Matrix", 2, FloatElems), b \in Operands("Matrix", 1, FloatElems) :
             heap = <<a, b>>
       \/ \E a \in Operands("IntMatrix", 2, IntElems), b \in Operands("IntMatrix", 1, IntElems) :
             heap = <<a, b>>
       \/ \E a \in SquareOperands : heap = <<a>>
    /\ hist = [p \in 1..Len(heap) |-> [retains |-> heap[p].ref_count - 1, releases |-> 0,
                                       destroys |-> 0]]
    /\ last = Returned(Call("init", <<>>, <<>>), NULL, Zero)
    /\ events = <<>>
    /\ status = "running"

\* No call has been made yet.
CallReady == Running /\ last.op = "init"

FloatArgs == OrNull(LiveOf("Matrix"))
IntArgs == OrNull(LiveOf("IntMatrix"))

NextOps ==
    \/ CallReady /\ \E s \in NewShapes : matrix_new(s[1], s[2])
    \/ CallReady /\ \E s \in NewShapes : intmatrix_new(s[1], s[2])
    \/ CallReady /\ \E s \in NewShapes : complexmatrix_new(s[1], s[2])
    \/ CallReady /\ \E t \in NewTexts : str_new(t)
    \/ CallReady /\ \E m \in FloatArgs, x \in FloatScalars : matrix_add_scalar(m, x)
    \/ CallReady /\ \E m \in FloatArgs, x \in FloatScalars : matrix_sub_scalar(m, x)
    \/ CallReady /\ \E m \in FloatArgs, x \in FloatScalars : scalar_sub_matrix(x, m)
    \/ CallReady /\ \E m \in FloatArgs, x \in FloatScalars : matrix_mul_scalar(m, x)
    \/ CallReady /\ \E m \in FloatArgs, x \in FloatScalars : matrix_div_scalar(m, x)
    \/ CallReady /\ \E m \in FloatArgs, x \in FloatScalars : scalar_div_matrix(x, m)
    \/ CallReady /\ \E m \in FloatArgs, x \in FloatScalars : matrix_mod_scalar(m, x)
    \/ CallReady /\ \E m \in FloatArgs, x \in FloatScalars : matrix_pow_scalar(m, x)
    \/ CallReady /\ \E m1 \in FloatArgs, m2 \in FloatArgs : matrix_add_matrix(m1, m2)
    \/ CallReady /\ \E m1 \in FloatArgs, m2 \in FloatArgs : matrix_sub_matrix(m1, m2)
    \/ CallReady /\ \E m1 \in FloatArgs, m2 \in FloatArgs : matrix_mul_matrix(m1, m2)
    \/ CallReady /\ \E m1 \in FloatArgs, m2 \in FloatArgs : matrix_div_matrix(m1, m2)
    \/ CallReady /\ \E m1 \in FloatArgs, m2 \in FloatArgs : matrix_mod_matrix(m1, m2)
    \/ CallReady /\ \E m1 \in FloatArgs, m2 \in FloatArgs : matrix_pow_matrix(m1, m2)
    \/ CallReady /\ \E m \in IntArgs, x \in IntScalars : intmatrix_add_scalar(m, x)
    \/ CallReady /\ \E m \in IntArgs, x \in IntScalars : intmatrix_sub_scalar(m, x)
    \/ CallReady /\ \E m \in IntArgs, x \in IntScalars : scalar_sub_intmatrix(x, m)
    \/ CallReady /\ \E m \in IntArgs, x \in IntScalars : intmatrix_mul_scalar(m, x)
    \/ CallReady /\ \E m \in IntArgs, x \in IntScalars : intmatrix_div_scalar(m, x)
    \/ CallReady /\ \E m \in IntArgs, x \in IntScalars : intmatrix_mod_scalar(m, x)
    \/ CallReady /\ \E m \in IntArgs, x \in IntScalars : intmatrix_pow_scalar(m, x)
    \/ CallReady /\ \E m1 \in IntArgs, m2 \in IntArgs : intmatrix_add_intmatrix(m1, m2)
    \/ CallReady /\ \E m1 \in IntArgs, m2 \in IntArgs : intmatrix_sub_intmatrix(m1, m2)
    \/ CallReady /\ \E m1 \in IntArgs, m2 \in IntArgs : intmatrix_mul_intmatrix(m1, m2)
    \/ CallReady /\ \E m1 \in IntArgs, m2 \in IntArgs : intmatrix_div_intmatrix(m1, m2)
    \/ CallReady /\ \E m1 \in IntArgs, m2 \in IntArgs : intmatrix_mod_intmatrix(m1, m2)
    \/ CallReady /\ \E m1 \in IntArgs, m2 \in IntArgs : intmatrix_pow_intmatrix(m1, m2)
    \/ CallReady /\ \E m \in IntArgs : intmatrix_to_matrix(m)
    \/ CallReady /\ \E n \in 0..MaxN : brix_eye(n)
    \/ CallReady /\ \E m \in LiveOf("Matrix") : brix_tr(m)
    \/ CallReady /\ \E m \in LiveOf("Matrix") : brix_det(m)
    \/ CallReady /\ \E m \in LiveOf("Matrix") : brix_inv(m)
    \/ CallReady /\ \E m \in LiveOf("Matrix") : brix_eigvals(m)
    \/ CallReady /\ \E m \in LiveOf("Matrix") : brix_eigvecs(m)

SpecOps == InitOps /\ [][NextOps]_vars

-----------------------------------------------------------------------------
(* Properties of the call machine.                                          *)

Constructors == {"matrix_new", "intmatrix_new", "complexmatrix_new", "str_new"}

FloatScalarOps == {"matrix_add_scalar", "matrix_sub_scalar", "scalar_sub_matrix",
                   "matrix_mul_scalar", "matrix_div_scalar", "scalar_div_matrix",
                   "matrix_mod_scalar", "matrix_pow_scalar"}

IntScalarOps == {"intmatrix_add_scalar", "intmatrix_sub_scalar", "scalar_sub_intmatrix",
                 "intmatrix_mul_scalar", "intmatrix_div_scalar", "intmatrix_mod_scalar",
                 "intmatrix_pow_scalar"}

FloatMatrixOps == {"matrix_add_matrix", "matrix_sub_matrix", "matrix_mul_matrix",
                   "matrix_div_matrix", "matrix_mod_matrix", "matrix_pow_matrix"}

IntMatrixOps == {"intmatrix_add_intmatrix", "intmatrix_sub_intmatrix",
                 "intmatrix_mul_intmatrix", "intmatrix_div_intmatrix",
                 "intmatrix_mod_intmatrix", "intmatrix_pow_intmatrix"}

ArithmeticOps ==
    FloatScalarOps \cup IntScalarOps \cup FloatMatrixOps \cup IntMatrixOps
        \cup {"intmatrix_to_matrix"}

LinalgOps == {"brix_eye", "brix_tr", "brix_det", "brix_inv", "brix_eigvals", "brix_eigvecs"}

\* C1: whatever a constructor or an arithmetic, promotion or linear-algebra
\* operation returns (brix_det returns a number and brix_inv may return
\* NULL: neither is a value) is a live record whose ref_count is 1.
FreshCountOne ==
    (/\ last.op \in Constructors \cup ArithmeticOps \cup (LinalgOps \ {"brix_det"})
     /\ last.returned
     /\ last.ret # NULL) =>
        /\ IsLive(last.ret)
        /\ heap[last.ret].ref_count = 1

\* brix_inv has just returned the inverse of a matrix of order 2 or more.
InverseReturned ==
    /\ last.op = "brix_inv"
    /\ last.returned
    /\ last.ret # NULL
    /\ heap[last.ret].rows >= 2
    /\ heap[last.ret].ref_count = 1

\* C8: a call of an arithmetic, promotion or linear-algebra operation leaves
\* every record that existed before it exactly as it was (rows, cols, buffer,
\* ref_count), frees none, and a matrix it returns is a record that did not
\* exist before, allocated with a buffer of its own in this call.
OperandsUntouched ==
    [][StepOf(ArithmeticOps \cup LinalgOps) =>
          /\ \A p \in 1..Len(heap) : heap'[p] = heap[p]
          /\ \A i \in 1..Len(events') :
                events'[i].ev \notin {"free_rec", "free_data", "free_env"}
          /\ (last'.returned /\ last'.ret # NULL) =>
                /\ last'.ret \notin 1..Len(heap)
                /\ last'.ret = Len(heap')
                /\ \A i \in 1..Len(last'.args) : last'.args[i] # last'.ret
                /\ Cardinality(Positions(events', "alloc_rec")) = 1
                /\ Cardinality(Positions(events', "alloc_data")) = 1]_vars

\* A shared matrix has just been added to itself, and is still what it was.
SameOperandTwice ==
    /\ last.op = "matrix_add_matrix"
    /\ last.args = <<1, 1>>
    /\ last.returned
    /\ heap[1].ref_count = 2
    /\ heap[1].data = <<Zero, <<3, 1>>>>
    /\ heap[last.ret].data = <<Zero, <<6, 1>>>>

\* C9: a matrix-with-matrix operator (Float or Integer) called on two
\* matrices that differ in rows or in cols ends the process and returns
\* nothing; when it returns, the operands have one shape and the result has
\* that shape and rows * cols elements.
ShapeChecked ==
    (/\ last.op \in FloatMatrixOps \cup IntMatrixOps
     /\ last.args[1] # NULL
     /\ last.args[2] # NULL) =>
        LET a == heap[last.args[1]]
            b == heap[last.args[2]]
        IN  /\ (a.rows # b.rows \/ a.cols # b.cols) =>
                  ~last.returned /\ status = "exited"
            /\ last.returned =>
                  /\ heap[last.ret].rows = a.rows /\ heap[last.ret].rows = b.rows
                  /\ heap[last.ret].cols = a.cols /\ heap[last.ret].cols = b.cols
                  /\ Len(heap[last.ret].data) = a.rows * a.cols

\* An Integer operator has just ended the process on operands with as many
\* rows and elements as each other but not as many cols.
ColsMismatchFatal ==
    /\ last.op = "intmatrix_pow_intmatrix"
    /\ last.args = <<1, 2>>
    /\ heap[1].rows * heap[1].cols = heap[2].rows * heap[2].cols
    /\ heap[1].rows * heap[1].cols > 0
    /\ heap[1].cols # heap[2].cols
    /\ ~last.returned
    /\ status = "exited"

\* C10: Float or Integer matrix / scalar and matrix % scalar with a zero
\* scalar, and scalar / matrix, matrix / matrix, matrix % matrix (Float or
\* Integer) with a zero anywhere in the divisor matrix, end the process and
\* return nothing.
ZeroDivisorFatal ==
    LET zeroScalar ==
            \/ last.op \in {"matrix_div_scalar", "matrix_mod_scalar"} /\ IsZero(last.x)
            \/ last.op \in {"intmatrix_div_scalar", "intmatrix_mod_scalar"} /\ last.x = <<0>>
        divisor == IF last.op = "scalar_div_matrix" THEN last.args[1] ELSE last.args[2]
        zeroElement ==
            /\ last.op \in {"scalar_div_matrix", "matrix_div_matrix", "matrix_mod_matrix",
                            "intmatrix_div_intmatrix", "intmatrix_mod_intmatrix"}
            /\ divisor # NULL
            /\ \E i \in 1..Len(heap[divisor].data) :
                  IF heap[divisor].kind = "IntMatrix"
                  THEN heap[divisor].data[i] = 0
                  ELSE heap[divisor].data[i] = Zero
    IN  (zeroScalar \/ zeroElement) => ~last.returned /\ status = "exited"

\* A modulo has just ended the process on a divisor whose only zero is its
\* last element.
LastElementZeroFatal ==
    /\ last.op = "matrix_mod_matrix"
    /\ last.args = <<1, 2>>
    /\ heap[1].rows = heap[2].rows
    /\ heap[1].cols = heap[2].cols
    /\ heap[2].data = <<<<3, 1>>, Zero>>
    /\ ~last.returned
    /\ status = "exited"

\* C11: every arithmetic operator and the promotion, called with a NULL
\* matrix operand (first or second), ends the process: nothing is returned,
\* and nothing was allocated before the exit (the exit is the call's only
\* event).
NullOperandFatal ==
    (/\ last.op \in ArithmeticOps
     /\ \E i \in 1..Len(last.args) : last.args[i] = NULL) =>
        /\ status = "exited"
        /\ ~last.returned
        /\ events = <<Event("exit", NULL)>>

\* An Integer addition has just ended the process on a NULL second operand.
NullSecondOperandFatal ==
    /\ last.op = "intmatrix_add_intmatrix"
    /\ last.args = <<1, NULL>>
    /\ status = "exited"
    /\ ~last.returned

\* q is the quotient of a by b (b # 0) truncated toward zero: the integer
\* of largest magnitude with |q| * |b| <= |a|, carrying the sign of a / b.
TruncatedQuotient(a, b, q) ==
    /\ Abs(q) * Abs(b) <= Abs(a)
    /\ Abs(a) < (Abs(q) + 1) * Abs(b)
    /\ q # 0 => Sign(q) = Sign(a) * Sign(b)

\* C12: every Integer Matrix operator that returns, returns an Integer
\* Matrix of the operand's shape; sums, differences and products are the
\* integer ones; each element of a division result is the quotient of the
\* operand elements truncated toward zero (the divisor is not zero), each
\* element of a modulo result is the remainder r with q * b + r = a for that
\* truncated quotient q; each element of a power result is the power
\* computed in floating point (when it is finite) truncated toward zero.
IntegerArithmetic ==
    (last.op \in IntScalarOps \cup IntMatrixOps /\ last.returned) =>
        LET r == heap[last.ret]
            m == heap[last.args[1]]
            A(i) == m.data[i]
            B(i) == IF last.op \in IntScalarOps THEN last.x[1]
                    ELSE heap[last.args[2]].data[i]
            pw(i) == Pow(FromInt(A(i)), FromInt(B(i)))
        IN  /\ r.kind = "IntMatrix"
            /\ r.rows = m.rows /\ r.cols = m.cols /\ Len(r.data) = m.rows * m.cols
            /\ \A i \in 1..Len(r.data) :
                  /\ r.data[i] \in Int
                  /\ last.op \in {"intmatrix_add_scalar", "intmatrix_add_intmatrix"} =>
                        r.data[i] = A(i) + B(i)
                  /\ last.op \in {"intmatrix_sub_scalar", "intmatrix_sub_intmatrix"} =>
                        r.data[i] = A(i) - B(i)
                  /\ last.op = "scalar_sub_intmatrix" => r.data[i] = B(i) - A(i)
                  /\ last.op \in {"intmatrix_mul_scalar", "intmatrix_mul_intmatrix"} =>
                        r.data[i] = A(i) * B(i)
                  /\ last.op \in {"intmatrix_div_scalar", "intmatrix_div_intmatrix"} =>
                        B(i) # 0 /\ TruncatedQuotient(A(i), B(i), r.data[i])
                  /\ last.op \in {"intmatrix_mod_scalar", "intmatrix_mod_intmatrix"} =>
                        /\ B(i) # 0
                        /\ \E q \in (-Abs(A(i)))..Abs(A(i)) :
                              /\ TruncatedQuotient(A(i), B(i), q)
                              /\ q * B(i) + r.data[i] = A(i)
                  /\ (last.op \in {"intmatrix_pow_scalar", "intmatrix_pow_intmatrix"}
                        /\ IsFinite(pw(i))) =>
                        TruncatedQuotient(pw(i)[1], pw(i)[2], r.data[i])

\* -3 / 2 has just been computed as -1 (the floored quotient is -2).
NegativeQuotientTruncated ==
    /\ last.op = "intmatrix_div_scalar"
    /\ last.x = <<2>>
    /\ last.returned
    /\ heap[last.args[1]].data = <<0, -3>>
    /\ heap[last.ret].data = <<0, -1>>

\* The sum over k' < k of a[i][k'] * b[k'][j], for two n x n buffers.
RECURSIVE RowTimesCol(_, _, _, _, _, _)
RowTimesCol(a, b, n, i, j, k) ==
    IF k = 0 THEN Zero
    ELSE FAdd(RowTimesCol(a, b, n, i, j, k - 1),
              FMul(At(a, n, i, k - 1), At(b, n, k - 1, j)))

\* The product of the n x n buffers a and b is the identity.
ProductIsIdentity(a, b, n) ==
    \A i \in 0..(n - 1), j \in 0..(n - 1) :
        RowTimesCol(a, b, n, i, j, n) = IF i = j THEN One ELSE Zero

\* C16: for a square A of order n on which the Gauss-Jordan elimination
\* meets no pivot of magnitude below 1e-10, brix_inv(A) returns an n x n
\* matrix R with A * R = identity(n) (and R * A = identity(n)), in exact
\* arithmetic.
InverseTimesMatrixIsIdentity ==
    LET A == heap[last.args[1]]
        n == A.rows
    IN  (/\ last.op = "brix_inv"
         /\ A.rows = A.cols
         /\ ~InvLoop(Augmented(A.data, n), n, 0).singular) =>
            /\ last.returned
            /\ last.ret # NULL
            /\ heap[last.ret].rows = n /\ heap[last.ret].cols = n
            /\ ProductIsIdentity(A.data, heap[last.ret].data, n)
            /\ ProductIsIdentity(heap[last.ret].data, A.data, n)

\* The inverse of [[1, 2], [3, 4]] has just been returned: it is
\* [[-2, 1], [3/2, -1/2]], found after a swap of the two rows.
InverseOfOneTwoThreeFour ==
    /\ last.op = "brix_inv"
    /\ last.returned
    /\ heap[last.args[1]].data = <<One, <<2, 1>>, <<3, 1>>, <<4, 1>>>>
    /\ FindPivot(heap[last.args[1]].data, 2, 2, 0, 1, 0) = 1
    /\ last.ret # NULL
    /\ heap[last.ret].data = <<<<-2, 1>>, One, <<3, 2>>, <<-1, 2>>>>

\* The elimination of brix_det on the n x n buffer a, from column i on,
\* comes to a column whose pivot (after the row swap) is below 1e-10.
RECURSIVE MeetsSmallPivot(_, _, _)
MeetsSmallPivot(a, n, i) ==
    /\ i < n
    /\ LET pivot == FindPivot(a, n, n, i, i + 1, i)
           b == IF pivot # i THEN SwapRows(a, n, i, pivot) ELSE a
       IN  \/ PivotTooSmall(At(b, n, i, i))
           \/ MeetsSmallPivot(DetEliminate(b, n, i), n, i + 1)

\* C17: every call of brix_det returns and leaves the process running and
\* the heap (so the input matrix) as it was; on a matrix that is not square
\* it returns 0.0, and on a square matrix of order 3 or more whose
\* elimination comes to a pivot below 1e-10 it returns 0.0.
DetReportsByValue ==
    /\ [](last.op = "brix_det" =>
            LET A == heap[last.args[1]]
            IN  /\ status = "running"
                /\ last.returned
                /\ A.rows # A.cols => last.val = Zero
                /\ (A.rows = A.cols /\ A.rows >= 3 /\ MeetsSmallPivot(A.data, A.rows, 0))
                      => last.val = Zero)
    /\ [][StepOf({"brix_det"}) => heap' = heap]_vars

\* brix_det has just returned 0.0 for a 3 x 3 matrix whose first column
\* gave the pivot 1.0 without a swap and whose elimination stopped at a
\* later column.
SingularAfterSwap ==
    /\ last.op = "brix_det"
    /\ last.returned
    /\ status = "running"
    /\ heap[last.args[1]].data =
          <<One, Zero, Zero,   One, Zero, Zero,   Zero, One, Zero>>
    /\ FindPivot(heap[last.args[1]].data, 3, 3, 0, 1, 0) = 0
    /\ ~PivotTooSmall(heap[last.args[1]].data[1])
    /\ last.val = Zero
    /\ events = TmpAlloc \o TmpFree

\* C18: every call of brix_inv returns, with the process running and every
\* record that existed before the call as it was; it returns NULL exactly
\* when the matrix is not square or its elimination comes to a pivot below
\* 1e-10 (nothing is allocated for a result then), and otherwise a live
\* n x n matrix.
InvReportsByNull ==
    /\ [](last.op = "brix_inv" =>
            LET A == heap[last.args[1]]
                n == A.rows
                failed == \/ A.rows # A.cols
                          \/ InvLoop(Augmented(A.data, n), n, 0).singular
            IN  /\ status = "running"
                /\ last.returned
                /\ failed <=> last.ret = NULL
                /\ failed => Positions(events, "alloc_rec") = {}
                /\ ~failed =>
                      /\ IsLive(last.ret)
                      /\ heap[last.ret].kind = "Matrix"
                      /\ heap[last.ret].rows = n /\ heap[last.ret].cols = n
                      /\ Len(heap[last.ret].data) = n * n)
    /\ [][StepOf({"brix_inv"}) => \A p \in 1..Len(heap) : heap'[p] = heap[p]]_vars

\* brix_inv has just returned NULL for the singular [[1, 2], [2, 4]], whose
\* first pivot is not small, and the process runs on.
SingularInverseIsNull ==
    /\ last.op = "brix_inv"
    /\ last.returned
    /\ last.ret = NULL
    /\ status = "running"
    /\ heap[last.args[1]].data = <<One, <<2, 1>>, <<2, 1>>, <<4, 1>>>>
    /\ heap[last.args[1]].rows = 2 /\ heap[last.args[1]].cols = 2
    /\ events = TmpAlloc \o TmpFree

\* The columns at which the event e of the last call happened.
ColumnsOf(e) == {events[i].at : i \in Positions(events, e)}

\* C19: in a brix_eigvecs that returns, for the wi and vr the solver gave
\* (nonzero imaginary parts in adjacent pairs): a column c tested with
\* wi[c] == 0 holds vr[:, c] with imaginary part 0; a column c tested with
\* wi[c] # 0 holds vr[:, c] + i * vr[:, c + 1], column c + 1 holds
\* vr[:, c] - i * vr[:, c + 1] and is not tested itself; each of the n
\* columns of the result is written exactly once, and no column of index n
\* or more is read or written.
PairsReconstructed ==
    (last.op = "brix_eigvecs" /\ last.returned) =>
        LET n == heap[last.args[1]].rows
            R == heap[last.ret].data
            vr == SolverVr(n)
        IN  /\ heap[last.ret].rows = n /\ heap[last.ret].cols = n
            /\ \A c \in ColumnsOf("wi_zero") :
                  /\ c \in 0..(n - 1)
                  /\ \A row \in 0..(n - 1) :
                        At(R, n, row, c) = [re |-> vr[c * n + row + 1], im |-> Zero]
            /\ \A c \in ColumnsOf("wi_nonzero") :
                  /\ c \in 0..(n - 2)
                  /\ c + 1 \notin ColumnsOf("wi_zero") \cup ColumnsOf("wi_nonzero")
                  /\ \A row \in 0..(n - 1) :
                        /\ At(R, n, row, c) =
                              [re |-> vr[c * n + row + 1], im |-> vr[(c + 1) * n + row + 1]]
                        /\ At(R, n, row, c + 1) =
                              [re |-> vr[c * n + row + 1],
                               im |-> FNeg(vr[(c + 1) * n + row + 1])]
            /\ \A c \in 0..(n - 1) :
                  Cardinality({i \in Positions(events, "write_col") : events[i].at = c}) = 1
            /\ ColumnsOf("write_col") = 0..(n - 1)
            /\ ColumnsOf("read_vr") \subseteq 0..(n - 1)

\* brix_eigvecs has just returned for a 3 x 3 matrix with one real
\* eigenvalue followed by a complex pair in the last two columns.
PairInLastColumns ==
    /\ last.op = "brix_eigvecs"
    /\ last.returned
    /\ heap[last.args[1]].rows = 3
    /\ ColumnsOf("wi_zero") = {0}
    /\ ColumnsOf("wi_nonzero") = {1}
    /\ heap[last.ret].data[3] = [re |-> <<4, 1>>, im |-> <<-7, 1>>]

\* In the last call the solver was called exactly twice: once in query
\* mode, then the workspace was allocated, then once for the computation.
QueryThenCompute ==
    /\ Cardinality(Positions(events, "dgeev_query")) = 1
    /\ Cardinality(Positions(events, "dgeev")) = 1
    /\ \E q \in Positions(events, "dgeev_query"), w \in Positions(events, "alloc_tmp"),
          d \in Positions(events, "dgeev") : q < w /\ w < d /\ d = w + 1

\* After a solve that reported a nonzero status the process has ended and
\* the call has allocated and returned no Complex Matrix; a call that returns
\* allocated its result after a solve that reported 0.
FailedSolveIsFatal ==
    /\ Positions(events, "info_nonzero") # {} =>
          /\ status = "exited"
          /\ ~last.returned
          /\ Positions(events, "alloc_rec") = {}
    /\ last.returned =>
          /\ Positions(events, "info_nonzero") = {}
          /\ IsLive(last.ret) /\ heap[last.ret].kind = "ComplexMatrix"
          /\ Precedes(events, "dgeev", "alloc_rec")

\* C20 as stated: in every invocation of brix_eigvals or brix_eigvecs the
\* solver is called exactly twice, the query first and the computation on a
\* workspace allocated after the query, and a nonzero status is fatal: no
\* Complex Matrix is returned after a failed solve.
SolverTwicePerInvocation ==
    last.op \in {"brix_eigvals", "brix_eigvecs"} =>
        QueryThenCompute /\ FailedSolveIsFatal

\* C20, amended: the same in every invocation on a square matrix; an
\* invocation on a matrix that is not square ends the process before the
\* solver is called at all.
SolverTwiceOnSquare ==
    last.op \in {"brix_eigvals", "brix_eigvecs"} =>
        LET A == heap[last.args[1]]
        IN  /\ A.rows = A.cols => QueryThenCompute /\ FailedSolveIsFatal
            /\ A.rows # A.cols =>
                  /\ status = "exited"
                  /\ ~last.returned
                  /\ events = <<Event("exit", NULL)>>

\* brix_eigvecs has just ended the process after the solver, queried and
\* then run on a 2 x 2 matrix, reported a nonzero status.
ExitAfterFailedSolve ==
    /\ last.op = "brix_eigvecs"
    /\ heap[last.args[1]].rows = 2 /\ heap[last.args[1]].cols = 2
    /\ status = "exited"
    /\ Positions(events, "dgeev_query") = {5}
    /\ Positions(events, "dgeev") = {7}
    /\ Positions(events, "info_nonzero") = {8}

-----------------------------------------------------------------------------
(* Strings.                                                                 *)

\* toupper and tolower on the bytes the model draws.
ToUpper(ch) == CASE ch = "a" -> "A" [] ch = "b" -> "B" [] OTHER -> ch
ToLower(ch) == CASE ch = "A" -> "a" [] ch = "B" -> "b" [] OTHER -> ch

\* A BrixString record obtained from malloc whose ref_count field is never
\* assigned: the field holds whatever the memory held.
UnsetCountReturn(c, bytes) ==
    \E rc \in IndeterminateLongs : AllocReturn(c, StringRec(rc, bytes), AllocEvents)

\* return str_new(...) from within another function.
StrNewReturn(c, bytes) == AllocReturn(c, StringRec(InitialRefCount, bytes), AllocEvents)

\* str_concat with the strcpy alone: the buffer holds a's bytes only.
ConcatWithoutStrcat(a, b) ==
    /\ Running
    /\ AllocReturn(Call("str_concat", <<a, b>>, <<>>),
                   [StringRec(InitialRefCount, heap[a].data)
                        EXCEPT !.len = heap[a].len + heap[b].len],
                   AllocEvents)

\* str_concat(a, b): a new record with ref_count 1, len the sum of the two
\* len fields, and a buffer of len + 1 bytes into which strcpy puts a's
\* bytes and strcat b's, terminator last.
str_concat(a, b) ==
    /\ Running
    /\ AllocReturn(Call("str_concat", <<a, b>>, <<>>),
                   [StringRec(InitialRefCount, heap[a].data \o heap[b].data)
                        EXCEPT !.len = heap[a].len + heap[b].len],
                   AllocEvents)

\* brix_uppercase(str): the empty string from str_new for a NULL argument,
\* otherwise a record built by hand whose bytes are those of str in upper
\* case.
brix_uppercase(str) ==
    LET c == Call("brix_uppercase", <<str>>, <<>>)
    IN  /\ Running
        /\ IF str = NULL \/ heap[str].data_null THEN StrNewReturn(c, <<>>)
           ELSE UnsetCountReturn(c, [i \in 1..heap[str].len |-> ToUpper(heap[str].data[i])])

\* brix_lowercase(str): the same with tolower.
brix_lowercase(str) ==
    LET c == Call("brix_lowercase", <<str>>, <<>>)
    IN  /\ Running
        /\ IF str = NULL \/ heap[str].data_null THEN StrNewReturn(c, <<>>)
           ELSE UnsetCountReturn(c, [i \in 1..heap[str].len |-> ToLower(heap[str].data[i])])

\* brix_capitalize with no str_new("") for a NULL or empty argument: the
\* argument's absence is handed back as a NULL result.
CapitalizeEmptyIsNull(str) ==
    LET c == Call("brix_capitalize", <<str>>, <<>>)
    IN  /\ Running
        /\ IF str = NULL \/ heap[str].data_null \/ heap[str].len = 0
           THEN PureReturn(c, NULL, Zero, <<>>)
           ELSE UnsetCountReturn(c, [i \in 1..heap[str].len |->
                                        IF i = 1 THEN ToUpper(heap[str].data[i])
                                        ELSE heap[str].data[i]])

\* brix_capitalize(str): the empty string from str_new for a NULL or empty
\* argument, otherwise a hand-built copy with the first byte in upper case.
brix_capitalize(str) ==
    LET c == Call("brix_capitalize", <<str>>, <<>>)
    IN  /\ Running
        /\ IF str = NULL \/ heap[str].data_null \/ heap[str].len = 0
           THEN StrNewReturn(c, <<>>)
           ELSE UnsetCountReturn(c, [i \in 1..heap[str].len |->
                                        IF i = 1 THEN ToUpper(heap[str].data[i])
                                        ELSE heap[str].data[i]])

\* strstr(hay + from, needle): the offset (from 0) of the first occurrence
\* of needle in hay at or after `from', or -1.
Occurs(hay, needle, at) ==
    /\ at + Len(needle) <= Len(hay)
    /\ \A i \in 1..Len(needle) : hay[at + i] = needle[i]

RECURSIVE StrStr(_, _, _)
StrStr(hay, needle, from) ==
    IF from + Len(needle) > Len(hay) THEN -1
    ELSE IF Occurs(hay, needle, from) THEN from
    ELSE StrStr(hay, needle, from + 1)

\* The bytes brix_replace builds: before the match, the replacement, after
\* the match.
ReplaceFirst(text, old, new, pos) ==
    SubSeq(text, 1, pos) \o new \o SubSeq(text, pos + Len(old) + 1, Len(text))

\* The bytes brix_replace_all builds from offset src on: each match found
\* from left to right, searching on after the end of the previous match.
RECURSIVE ReplaceEvery(_, _, _, _)
ReplaceEvery(text, old, new, src) ==
    LET pos == StrStr(text, old, src)
    IN  IF pos = -1 THEN SubSeq(text, src + 1, Len(text))
        ELSE SubSeq(text, src + 1, pos) \o new
                 \o ReplaceEvery(text, old, new, pos + Len(old))

\* brix_replace and brix_replace_all (every = TRUE): str itself when an
\* argument is NULL or old is empty; a str_new copy when old does not occur;
\* otherwise a record built by hand.
Replace(name, str, old, new, every) ==
    LET c == Call(name, <<str, old, new>>, <<>>)
    IN  /\ Running
        /\ IF str = NULL \/ old = NULL \/ new = NULL THEN PureReturn(c, str, Zero, <<>>)
           ELSE IF heap[old].len = 0 THEN PureReturn(c, str, Zero, <<>>)
           ELSE IF StrStr(heap[str].data, heap[old].data, 0) = -1
           THEN StrNewReturn(c, heap[str].data)
           ELSE UnsetCountReturn(c,
                    IF every
                    THEN ReplaceEvery(heap[str].data, heap[old].data, heap[new].data, 0)
                    ELSE ReplaceFirst(heap[str].data, heap[old].data, heap[new].data,
                                      StrStr(heap[str].data, heap[old].data, 0)))

brix_replace(str, old, new) == Replace("brix_replace", str, old, new, FALSE)

brix_replace_all(str, old, new) == Replace("brix_replace_all", str, old, new, TRUE)

\* The string machine: one call of a string function on three strings the
\* caller holds (the first shared by two holders).
StrChars == {"a", "B"}

Texts == UNION {SeqsOf(StrChars, n) : n \in 0..MaxStrLen}

InitStr ==
    /\ \E t1 \in Texts, t2 \in Texts, t3 \in Texts :
          heap = <<StringRec(2, t1), StringRec(1, t2), StringRec(1, t3)>>
    /\ hist = [p \in 1..Len(heap) |-> [retains |-> heap[p].ref_count - 1, releases |-> 0,
                                       destroys |-> 0]]
    /\ last = Returned(Call("init", <<>>, <<>>), NULL, Zero)
    /\ events = <<>>
    /\ status = "running"

NextStr ==
    \/ CallReady /\ \E t \in NewTexts \cup Texts : str_new(t)
    \/ CallReady /\ \E a \in {1, 2}, b \in {1, 2} : str_concat(a, b)
    \/ CallReady /\ \E p \in {NULL, 1} : brix_uppercase(p)
    \/ CallReady /\ \E p \in {NULL, 1} : brix_lowercase(p)
    \/ CallReady /\ \E p \in {NULL, 1} : brix_capitalize(p)
    \/ CallReady /\ \E p \in {NULL, 1}, o \in {NULL, 2}, n \in {NULL, 3} : brix_replace(p, o, n)
    \/ CallReady /\ \E p \in {NULL, 1}, o \in {NULL, 2}, n \in {NULL, 3} :
                       brix_replace_all(p, o, n)

SpecStr == InitStr /\ [][NextStr]_vars

StringOps == {"str_concat", "brix_uppercase", "brix_lowercase", "brix_capitalize",
              "brix_replace", "brix_replace_all"}

\* C2: every string-producing operation returns a record that did not
\* exist before the call and whose ref_count is 1.
StringResultCountOne ==
    (last.op \in StringOps /\ last.returned) =>
        /\ last.ret = Len(heap)
        /\ \A i \in 1..Len(last.args) : last.args[i] # last.ret
        /\ Positions(events, "alloc_rec") # {}
        /\ heap[last.ret].ref_count = 1

\* A String of length zero: a live record with len 0 and a buffer that is
\* not NULL and holds nothing before its terminator.
ValidEmpty(p) ==
    /\ p # NULL
    /\ heap[p] # FreedRec
    /\ heap[p].kind = "String"
    /\ heap[p].len = 0
    /\ ~heap[p].data_null
    /\ heap[p].data = <<>>

\* The call was made on nothing: a NULL or empty text for str_new, a NULL or
\* empty String for the three case functions.
OnNothing ==
    \/ last.op = "str_new" /\ last.text \in {NoText, <<>>}
    \/ /\ last.op \in {"brix_uppercase", "brix_lowercase", "brix_capitalize"}
       /\ (last.args[1] = NULL \/ heap[last.args[1]].len = 0)

\* C21: str_new of a NULL or empty text, and brix_uppercase, brix_lowercase
\* and brix_capitalize of a NULL or empty String, return a String that is
\* not NULL, has len 0 and a non-NULL buffer holding only the terminator.
NothingGivesEmptyString ==
    OnNothing => (last.returned /\ ValidEmpty(last.ret))

\* brix_capitalize was called on the empty String and returned.
CapitalizedEmpty ==
    /\ last.op = "brix_capitalize"
    /\ last.returned
    /\ last.args[1] # NULL
    /\ heap[last.args[1]].len = 0

\* C22: the String returned by a string-producing operation is a different
\* record from each of its arguments, and the call leaves the arguments' len
\* and bytes as they were.
ResultIsNewRecord ==
    [][(last'.op \in StringOps /\ last'.returned) =>
          \A i \in 1..Len(last'.args) :
              last'.args[i] # NULL =>
                  /\ last'.args[i] # last'.ret
                  /\ heap'[last'.args[i]].len = heap[last'.args[i]].len
                  /\ heap'[last'.args[i]].data = heap[last'.args[i]].data]_vars

\* C23: str_concat(a, b) returns a String whose len is a.len + b.len and
\* whose buffer holds the bytes of a, then the bytes of b, then the
\* terminator, so that len is the number of bytes before the terminator.
ConcatIsJuxtaposition ==
    (last.op = "str_concat" /\ last.returned) =>
        LET a == heap[last.args[1]]
            b == heap[last.args[2]]
            s == heap[last.ret]
        IN  /\ s.len = a.len + b.len
            /\ ~s.data_null
            /\ s.data = a.data \o b.data
            /\ s.len = Len(s.data)

\* Two different Strings of two bytes each were concatenated into four bytes.
ConcatOfTwoAndTwo ==
    /\ last.op = "str_concat"
    /\ last.returned
    /\ heap[last.args[1]].data = <<"a", "B">>
    /\ heap[last.args[2]].data = <<"B", "a">>
    /\ heap[last.ret].len = 4

-----------------------------------------------------------------------------
(* The string lifetime machine: a string made by str_new, one string made  *)
(* from it by a string function, and then retains and releases of the two  *)
(* while they are alive.                                                    *)

InitStrLife ==
    /\ \E t \in Texts : heap = <<StringRec(InitialRefCount, t)>>
    /\ hist = <<NoHist>>
    /\ last = Returned(CallText("str_new", <<>>), 1, Zero)
    /\ events = AllocEvents
    /\ status = "running"

\* No string has been made from the first one yet.
Unmade == Len(heap) = 1 /\ IsLive(1)

\* Release is called on a value while the model's bounds allow.
MayRelease(p) == hist[p].releases <= MaxRetains

NextStrLife ==
    \/ Unmade /\ str_concat(1, 1)
    \/ Unmade /\ brix_uppercase(1)
    \/ Unmade /\ brix_lowercase(1)
    \/ Unmade /\ brix_capitalize(1)
    \/ Unmade /\ brix_replace(1, 1, 1)
    \/ Unmade /\ brix_replace_all(1, 1, 1)
    \/ \E p \in LiveOf("String") : MayRetain(p) /\ string_retain(p)
    \/ \E p \in LiveOf("String") : MayRelease(p) /\ string_release(p)

SpecStrLife == InitStrLife /\ [][NextStrLife]_vars

\* C5: a retain immediately followed by a release on a live value leaves
\* its ref_count as it was before the two calls and does not destroy it.
\* (The claim's second half, about values created with count 1, is
\* RetainReleaseBalance.)
RetainThenReleaseKeeps ==
    [][ReleaseAfterRetain =>
          /\ heap'[last.ret] # FreedRec
          /\ heap'[last.ret].ref_count = heap[last.ret].ref_count - 1]_vars

-----------------------------------------------------------------------------
(* The round-trip machine: an operation and then the operation that should  *)
(* undo it, applied to the first one's result.                              *)

\* Elements of the Float operands: zero, an ordinary value, a huge finite
\* value and an infinity.
TripFloatElems == {Zero, <<3, 1>>, Huge(1), PosInf}

\* Float matrices of 2 rows and 3 columns.
WideOperands ==
    {Operand("Matrix", 1, 2, 3, d) : d \in SeqsOf({Zero, One, <<2, 1>>}, 2 * 3)}

\* The caller's A and B: two Float matrices, two Integer matrices, or a
\* square or a 2 x 3 Float matrix taken twice.
InitTrip ==
    /\ \/ \E a \in Operands("Matrix", 1, TripFloatElems),
             b \in Operands("Matrix", 1, TripFloatElems) : heap = <<a, b>>
       \/ \E a \in Operands("IntMatrix", 1, IntElems),
             b \in Operands("IntMatrix", 1, IntElems) : heap = <<a, b>>
       \/ \E a \in SquareOperands \cup WideOperands : heap = <<a, a>>
    /\ hist = <<NoHist, NoHist>>
    /\ last = Returned(Call("init", <<>>, <<>>), NULL, Zero)
    /\ events = <<>>
    /\ status = "running"

\* The first call has returned a matrix and the second has not been made.
FirstDone(op) == Running /\ last.op = op /\ last.returned /\ Len(heap) = 3

NextTrip ==
    \/ CallReady /\ \E m1 \in LiveOf("Matrix"), m2 \in LiveOf("Matrix") :
                      matrix_add_matrix(m1, m2)
    \/ CallReady /\ \E m1 \in LiveOf("IntMatrix"), m2 \in LiveOf("IntMatrix") :
                      intmatrix_add_intmatrix(m1, m2)
    \/ CallReady /\ \E m \in LiveOf("Matrix") : brix_tr(m)
    \/ CallReady /\ \E n \in 0..MaxN : brix_eye(n)
    \/ FirstDone("matrix_add_matrix") /\ matrix_sub_matrix(last.ret, last.args[2])
    \/ FirstDone("intmatrix_add_intmatrix") /\ intmatrix_sub_intmatrix(last.ret, last.args[2])
    \/ FirstDone("brix_tr") /\ brix_tr(last.ret)
    \/ FirstDone("brix_eye") /\ brix_det(last.ret)

SpecTrip == InitTrip /\ [][NextTrip]_vars

\* The step in which the operation `undo' is applied to the result of `op'.
TripStep(op, undo) == last.op = op /\ last'.op = undo /\ last'.returned

\* x == y of the elements of two matrices of kind k.
SameElement(k, x, y) == IF k = "Matrix" THEN FEq(x, y) ELSE x = y

\* C13 as stated: for all A and B of one shape, the difference of A + B and
\* B has the shape of A and each of its elements is equal (==, tolerance 0)
\* to the element of A; Float and Integer alike.
SumMinusAddendIsAugend ==
    [][(\/ TripStep("matrix_add_matrix", "matrix_sub_matrix")
        \/ TripStep("intmatrix_add_intmatrix", "intmatrix_sub_intmatrix")) =>
          LET A == heap[last.args[1]]
              R == heap'[last'.ret]
          IN  /\ R.rows = A.rows /\ R.cols = A.cols
              /\ \A i \in 1..Len(A.data) : SameElement(A.kind, R.data[i], A.data[i])]_vars

\* The real number a + b is a double: both are finite, and neither is lost
\* against the other.
SumIsExact(a, b) ==
    /\ IsFinite(a) /\ IsFinite(b)
    /\ IsHuge(a) = IsHuge(b) \/ IsZero(a) \/ IsZero(b)

\* C13, amended: the same, for Integer matrices and for Float matrices with
\* finite elements of which every sum A[i] + B[i] is computed without
\* rounding.
ExactSumMinusAddendIsAugend ==
    [][(\/ /\ TripStep("matrix_add_matrix", "matrix_sub_matrix")
           /\ \A i \in 1..Len(heap[last.args[1]].data) :
                 SumIsExact(heap[last.args[1]].data[i], heap[last.args[2]].data[i])
        \/ TripStep("intmatrix_add_intmatrix", "intmatrix_sub_intmatrix")) =>
          LET A == heap[last.args[1]]
              R == heap'[last'.ret]
          IN  /\ R.rows = A.rows /\ R.cols = A.cols
              /\ \A i \in 1..Len(A.data) : SameElement(A.kind, R.data[i], A.data[i])]_vars

\* B has just been subtracted from A + B, for an A and a B that hold an
\* ordinary and a huge element each, and the difference is A.
DifferenceIsAugend ==
    /\ last.op = "matrix_sub_matrix"
    /\ last.returned
    /\ last.args = <<3, 2>>
    /\ heap[1].data = <<<<3, 1>>, Huge(1)>>
    /\ heap[2].data = <<<<3, 1>>, Huge(1)>>
    /\ heap[3].data = <<<<6, 1>>, Huge(2)>>
    /\ heap[4].data = heap[1].data

\* C14: brix_tr(A) of an r x c matrix A is a c x r matrix whose element
\* (j, i) is A's element (i, j), for every shape (vectors and empty shapes
\* included); and brix_tr applied to that result gives a matrix with the
\* rows, the cols and the elements of A.
TransposeReindexes ==
    /\ [](last.op = "brix_tr" /\ last.returned =>
            LET A == heap[last.args[1]]
                R == heap[last.ret]
            IN  /\ R.rows = A.cols /\ R.cols = A.rows
                /\ Len(R.data) = A.rows * A.cols
                /\ \A i \in 0..(A.rows - 1), j \in 0..(A.cols - 1) :
                      At(R.data, R.cols, j, i) = At(A.data, A.cols, i, j))
    /\ [][TripStep("brix_tr", "brix_tr") =>
            LET A == heap[last.args[1]]
                R == heap'[last'.ret]
            IN  /\ last'.args = <<last.ret>>
                /\ R.rows = A.rows /\ R.cols = A.cols /\ R.data = A.data]_vars

\* A 2 x 3 matrix with six elements that differ from their neighbours has
\* just been transposed twice: the 3 x 2 transpose holds the columns of A as
\* its rows, and its transpose is A.
TransposedTwice ==
    /\ last.op = "brix_tr"
    /\ last.returned
    /\ last.args = <<3>>
    /\ heap[1].rows = 2 /\ heap[1].cols = 3
    /\ heap[1].data = <<Zero, One, <<2, 1>>, One, <<2, 1>>, Zero>>
    /\ heap[3].rows = 3 /\ heap[3].cols = 2
    /\ heap[3].data = <<Zero, One, One, <<2, 1>>, <<2, 1>>, Zero>>
    /\ heap[4].rows = 2 /\ heap[4].cols = 3
    /\ heap[4].data = heap[1].data

\* C15: brix_det applied to brix_eye(n) returns 1.0 for every n: by the
\* closed forms for n = 1 and n = 2, and for the other n by an elimination
\* in which every column keeps its own row as pivot (no row swap), no pivot
\* is below 1e-10 (no singular exit) and no row is changed.
DetOfIdentityIsOne ==
    [][TripStep("brix_eye", "brix_det") =>
          LET n == last.x[1]
              I == heap[last.ret].data
          IN  /\ last'.args = <<last.ret>>
              /\ heap[last.ret].rows = n /\ heap[last.ret].cols = n
              /\ FEq(last'.val, One)
              /\ \A i \in 0..(n - 1) :
                    /\ FindPivot(I, n, n, i, i + 1, i) = i
                    /\ ~PivotTooSmall(At(I, n, i, i))
                    /\ DetEliminate(I, n, i) = I]_vars

\* The determinant of the identity of order MaxN has just been computed by
\* elimination (the working copy was allocated and freed) and is 1.0.
IdentityEliminated ==
    /\ last.op = "brix_det"
    /\ last.returned
    /\ last.args = <<3>>
    /\ heap[3].rows = MaxN
    /\ heap[3].data = [x \in 1..(MaxN * MaxN) |->
                          IF RowOf(x, MaxN) = ColOf(x, MaxN) THEN One ELSE Zero]
    /\ events = TmpAlloc \o TmpFree
    /\ last.val = One

-----------------------------------------------------------------------------
(* The determinant machine: one call of brix_det on a square matrix of      *)
(* order 3 or more.                                                         *)

\* The unit rows of length n.
UnitRows(n) == {[j \in 1..n |-> IF j = i THEN One ELSE Zero] : i \in 1..n}

\* Matrices of unit rows with the one of row i replaced by a nonzero value
\* below 1e-10.
SmallEntryOperands ==
    UNION {{Operand("Matrix", 1, n, n,
                    Flatten([r EXCEPT ![i] = [j \in 1..n |-> IF r[i][j] = One THEN Tiny(1)
                                                              ELSE Zero]], n)) :
                r \in SeqsOf(UnitRows(n), n), i \in 1..n} : n \in 3..MaxN}

InitDet ==
    /\ \E a \in {o \in SquareOperands : o.rows >= 3} \cup SmallEntryOperands : heap = <<a>>
    /\ hist = <<NoHist>>
    /\ last = Returned(Call("init", <<>>, <<>>), NULL, Zero)
    /\ events = <<>>
    /\ status = "running"

NextDet == CallReady /\ brix_det(1)

SpecDet == InitDet /\ [][NextDet]_vars

\* The n x n array a without its row 0 and its column c.
Minor(a, n, c) ==
    [x \in 1..((n - 1) * (n - 1)) |->
        At(a, n, RowOf(x, n - 1) + 1,
           IF ColOf(x, n - 1) < c THEN ColOf(x, n - 1) ELSE ColOf(x, n - 1) + 1)]

\* The determinant of the n x n array a by expansion along row 0.
RECURSIVE Expansion(_, _, _)
RECURSIVE TrueDet(_, _)
TrueDet(a, n) == IF n = 0 THEN One ELSE IF n = 1 THEN a[1] ELSE Expansion(a, n, 0)

Expansion(a, n, c) ==
    IF c >= n THEN Zero
    ELSE FAdd(FMul(IF c % 2 = 0 THEN At(a, n, 0, c) ELSE FNeg(At(a, n, 0, c)),
                   TrueDet(Minor(a, n, c), n - 1)),
              Expansion(a, n, c + 1))

\* At every step i the elimination of brix_det reaches on the n x n buffer
\* a, the row swapped into position i is at or below i and no row at or
\* below i has a larger absolute value in column i.
RECURSIVE PicksLargest(_, _, _)
PicksLargest(a, n, i) ==
    \/ i >= n
    \/ LET pivot == FindPivot(a, n, n, i, i + 1, i)
           b == IF pivot # i THEN SwapRows(a, n, i, pivot) ELSE a
       IN  /\ pivot \in i..(n - 1)
           /\ \A j \in i..(n - 1) : ~FLt(FAbs(At(a, n, pivot, i)), FAbs(At(a, n, j, i)))
           /\ At(b, n, i, i) = At(a, n, pivot, i)
           /\ \/ PivotTooSmall(At(b, n, i, i))
              \/ PicksLargest(DetEliminate(b, n, i), n, i + 1)

\* brix_det has returned for a square matrix of order 3 or more.
DetReturned ==
    /\ last.op = "brix_det"
    /\ last.returned
    /\ heap[last.args[1]].rows = heap[last.args[1]].cols
    /\ heap[last.args[1]].rows >= 3

\* C26 as stated: on a square matrix of order 3 or more brix_det swaps in,
\* at each step, the row with the largest absolute value in the column, and
\* the value it returns is the determinant of the matrix.
DetIsTrueDeterminant ==
    DetReturned =>
        LET A == heap[last.args[1]]
        IN  /\ PicksLargest(A.data, A.rows, 0)
            /\ last.val = TrueDet(A.data, A.rows)

\* C26 amended: the same, the value returned being the determinant when no
\* pivot chosen is below 1e-10, and 0.0 when one is.
DetIsTrueUnlessSmallPivot ==
    DetReturned =>
        LET A == heap[last.args[1]]
        IN  /\ PicksLargest(A.data, A.rows, 0)
            /\ last.val = IF MeetsSmallPivot(A.data, A.rows, 0) THEN Zero
                          ELSE TrueDet(A.data, A.rows)

\* brix_det has returned -1.0 for the identity of order 3 with two rows
\* exchanged.
OddPermutationMinusOne ==
    /\ DetReturned
    /\ heap[last.args[1]].data = <<Zero, One, Zero, One, Zero, Zero, Zero, Zero, One>>
    /\ last.val = FNeg(One)

-----------------------------------------------------------------------------
(* The atom pool: the process-wide table of interned names.  In the atom    *)
(* machines heap[1] is ATOM_POOL and hist is the set of <<name, id>> pairs  *)
(* atom_intern has returned since the process started.                      *)

\* The names the callers intern.
AtomNames == {<<"a">>, <<"b">>, <<"a", "b">>}

\* The capacity the first growth of the pool gives it.
FirstCapacity == 16

\* static AtomPool ATOM_POOL = {NULL, 0, 0}: names[0..count-1] are the
\* stored copies, in id order.
EmptyPool == [kind |-> "AtomPool", names |-> <<>>, count |-> 0, capacity |-> 0]

ATOM_POOL == heap[1]

\* The linear search of atom_intern: the first i with
\* strcmp(names[i], name) == 0, or -1.
RECURSIVE SearchFrom(_, _, _)
SearchFrom(pool, name, i) ==
    IF i >= pool.count THEN -1
    ELSE IF pool.names[i + 1] = name THEN i
    ELSE SearchFrom(pool, name, i + 1)

\* The pool after names[count] = strdup(name); count++, grown first when
\* count has reached capacity.
WithAtom(pool, name) ==
    [pool EXCEPT !.names = Append(@, name),
                 !.count = @ + 1,
                 !.capacity = IF pool.count < @ THEN @
                              ELSE IF @ = 0 THEN FirstCapacity ELSE @ * 2]

\* atom_intern that never searches: every call stores the name again.
InternAlwaysStores(name) ==
    LET c == CallText("atom_intern", name)
    IN  /\ Running
        /\ IF name = NoText THEN Fatal(c, <<>>)
           ELSE /\ heap' = <<WithAtom(ATOM_POOL, name)>>
                /\ hist' = hist \cup {<<name, ATOM_POOL.count>>}
                /\ last' = Returned(c, NULL, FromInt(ATOM_POOL.count))
                /\ events' = <<Event("strdup", NULL)>>
                /\ UNCHANGED status

\* atom_intern(name): exit(1) on NULL; the index of the name when the search
\* finds it; otherwise the name is copied into names[count] and the old
\* count is returned.  A realloc or strdup that returns NULL is fatal.
atom_intern(name) ==
    LET c == CallText("atom_intern", name)
        found == SearchFrom(ATOM_POOL, name, 0)
    IN  /\ Running
        /\ IF name = NoText THEN Fatal(c, <<>>)
           ELSE IF found # -1
           THEN /\ last' = Returned(c, NULL, FromInt(found))
                /\ hist' = hist \cup {<<name, found>>}
                /\ events' = <<>>
                /\ UNCHANGED <<heap, status>>
           ELSE \/ Fatal(c, <<Event("alloc_failed", NULL)>>)
                \/ /\ heap' = <<WithAtom(ATOM_POOL, name)>>
                   /\ hist' = hist \cup {<<name, ATOM_POOL.count>>}
                   /\ last' = Returned(c, NULL, FromInt(ATOM_POOL.count))
                   /\ events' = <<Event("strdup", NULL)>>
                   /\ UNCHANGED status

\* atom_name(id): exit(1) when id is not below count, else names[id].  The
\* text returned is kept in last.text.
atom_name(id) ==
    LET c == Call("atom_name", <<>>, <<id>>)
    IN  /\ Running
        /\ IF id < 0 \/ id >= ATOM_POOL.count THEN Fatal(c, <<>>)
           ELSE /\ last' = [Returned(c, NULL, Zero) EXCEPT !.text = ATOM_POOL.names[id + 1]]
                /\ events' = <<>>
                /\ UNCHANGED <<heap, hist, status>>

\* atom_eq(id1, id2): id1 == id2 as an int.
atom_eq(id1, id2) ==
    /\ Running
    /\ PureReturn(Call("atom_eq", <<>>, <<id1, id2>>), NULL,
                  FromInt(IF id1 = id2 THEN 1 ELSE 0), <<>>)

\* atom_pool_free that releases the copies and leaves the fields alone.
PoolFreeKeepsFields ==
    /\ Running
    /\ heap' = <<ATOM_POOL>>
    /\ last' = Returned(Call("atom_pool_free", <<>>, <<>>), NULL, Zero)
    /\ events' = [i \in 1..ATOM_POOL.count |-> Event("free_name", i - 1)]
    /\ UNCHANGED <<hist, status>>

\* atom_pool_free(): every stored copy and the array are freed; names is
\* NULL and count and capacity are 0 again.
atom_pool_free ==
    /\ Running
    /\ heap' = <<EmptyPool>>
    /\ last' = Returned(Call("atom_pool_free", <<>>, <<>>), NULL, Zero)
    /\ events' = [i \in 1..ATOM_POOL.count |-> Event("free_name", i - 1)]
    /\ UNCHANGED <<hist, status>>

\* The ids the callers pass: one below and one above every id there can be.
AtomIds == -1..Cardinality(AtomNames)

InitAtom ==
    /\ heap = <<EmptyPool>>
    /\ hist = {}
    /\ last = Returned(Call("init", <<>>, <<>>), NULL, Zero)
    /\ events = <<>>
    /\ status = "running"

\* The pool used without atom_pool_free.
NextIntern ==
    \/ \E name \in AtomNames \cup {NoText} : atom_intern(name)
    \/ \E id \in AtomIds : atom_name(id)
    \/ \E id1 \in AtomIds, id2 \in AtomIds : atom_eq(id1, id2)

SpecIntern == InitAtom /\ [][NextIntern]_vars

\* The pool with all four of its operations.
NextAtom ==
    \/ NextIntern
    \/ atom_pool_free

SpecAtom == InitAtom /\ [][NextAtom]_vars

\* atom_intern has just returned.
Interned == last.op = "atom_intern" /\ last.returned

\* C24: two interned names have equal ids exactly when they are the same
\* name; atom_intern of a name in the pool returns its id and adds nothing,
\* atom_intern of a new name returns the next unused index (the count) and
\* stores it there, and atom_name of the id returned gives the name back.
IdsAreNames ==
    /\ [](\A e1 \in hist, e2 \in hist : (e1[2] = e2[2]) <=> (e1[1] = e2[1]))
    /\ [](Interned =>
             /\ last.val[1] \in 0..(ATOM_POOL.count - 1)
             /\ ATOM_POOL.names[last.val[1] + 1] = last.text)
    /\ [][Interned' =>
             IF \E i \in 1..ATOM_POOL.count : ATOM_POOL.names[i] = last'.text
             THEN /\ ATOM_POOL' = ATOM_POOL
                  /\ ATOM_POOL.names[last'.val[1] + 1] = last'.text
             ELSE /\ last'.val[1] = ATOM_POOL.count
                  /\ ATOM_POOL'.count = ATOM_POOL.count + 1
                  /\ ATOM_POOL'.names = Append(ATOM_POOL.names, last'.text)]_vars

\* A name was interned a second time after another name had been stored
\* behind it, and got its first id back.
InternedAgain ==
    /\ Interned
    /\ events = <<>>
    /\ last.val[1] = 0
    /\ ATOM_POOL.count = Cardinality(AtomNames)

\* C25 as stated: over atom_intern, atom_name, atom_eq and atom_pool_free
\* the atom count never decreases, and every id atom_intern has returned
\* still denotes the name it was returned for.
PoolNeverShrinks ==
    /\ [][ATOM_POOL'.count >= ATOM_POOL.count]_vars
    /\ [](\A e \in hist : e[2] < ATOM_POOL.count /\ ATOM_POOL.names[e[2] + 1] = e[1])

\* C25 amended: atom_intern, atom_name and atom_eq never decrease the count
\* and leave every stored name at its id; atom_pool_free empties the pool.
PoolShrinksOnlyOnFree ==
    [][IF last'.op = "atom_pool_free"
       THEN ATOM_POOL' = EmptyPool
       ELSE /\ ATOM_POOL'.count >= ATOM_POOL.count
            /\ \A i \in 1..ATOM_POOL.count : ATOM_POOL'.names[i] = ATOM_POOL.names[i]]_vars

\* After an atom_pool_free an id issued before it has been issued again, for
\* another name.
IdIssuedTwice ==
    /\ Interned
    /\ \E e \in hist : e[2] = last.val[1] /\ e[1] # last.text

-----------------------------------------------------------------------------
(* The test runner: one describe block.  In the suite machine heap[1] holds *)
(* the runner's globals and the BrixTestSuite g_suite points to, last is    *)
(* the place the runner has come to (with its locals t, e and i in last.x), *)
(* events is the list of the closures called and of the array entries       *)
(* written, and hist counts the registrations and the matcher calls made.   *)

\* The capacities of the suite's arrays (1024 tests and 32 hooks of each
\* kind in the source; the arrays of the model are shorter).
BRIX_MAX_TESTS == 2
BRIX_MAX_HOOKS == 2

\* The registrations and the matcher calls of one run.
MaxRegs == 4
MaxMatchers == 2

HookKinds == {"before_all", "after_all", "before_each", "after_each"}

\* The globals at process start: g_suite = NULL, g_test_failed = 0,
\* g_current_test_idx = -1, and a g_test_jmp no setjmp has filled.  The
\* suite's fields are those calloc gives: counts 0, every hook entry NULL.
NoSuite ==
    [kind |-> "Tests", g_suite |-> FALSE, tests |-> <<>>, test_count |-> 0,
     passed_count |-> 0, failed_count |-> 0,
     hooks |-> [k \in HookKinds |-> [j \in 1..BRIX_MAX_HOOKS |-> NULL]],
     count |-> [k \in HookKinds |-> 0],
     g_test_failed |-> 0, g_current_test_idx |-> -1, g_test_jmp |-> <<>>]

Suite == heap[1]

\* The runner is at `at' with the locals t, e (the index of the entry e
\* points to) and i.
Pos(at, t, e, i) == Returned(Call(at, <<>>, <<t, e, i>>), NULL, Zero)

Here == [at |-> last.op, t |-> last.x[1], e |-> last.x[2], i |-> last.x[3]]

\* The closure registered by the n-th registration of the run.
NextClosure == hist.regs + 1

\* One more registration or matcher call has been made.
Counting(field) == hist' = [hist EXCEPT ![field] = @ + 1]

\* A step of the code outside the runner's loop that leaves the suite as it
\* is.
NoEffect(what) ==
    /\ events' = Append(events, Event(what, <<>>))
    /\ UNCHANGED <<heap, last, status>>

\* test_it_register(title, closure_ptr): nothing without a suite, exit(1)
\* when the tests array is full, else a new entry at tests[test_count++]
\* with passed = 1 and empty error_msg, file and line (error holds the
\* three).  runs and counted are not fields of the entry: they count the
\* calls of its body and the times the runner has added it to passed_count
\* or failed_count.
test_it_register ==
    /\ Running
    /\ last.op \in {"init", "describe", "done"}
    /\ hist.regs < MaxRegs
    /\ Counting("regs")
    /\ IF ~Suite.g_suite THEN NoEffect("register")
       ELSE IF Suite.test_count >= BRIX_MAX_TESTS
       THEN /\ status' = "exited"
            /\ events' = Append(events, Event("exit", <<>>))
            /\ UNCHANGED <<heap, last>>
       ELSE /\ heap' = <<[Suite EXCEPT
                            !.tests = Append(@, [fn_ptr |-> NextClosure, passed |-> 1,
                                                 error |-> <<>>, runs |-> 0, counted |-> 0]),
                            !.test_count = @ + 1]>>
            /\ events' = Append(events, Event("write_test", <<Suite.test_count>>))
            /\ UNCHANGED <<last, status>>

\* What an entry written at index i of a hook array of BRIX_MAX_HOOKS
\* entries leaves in the count that follows the array in the struct: the
\* incremented count when the entry lies inside the array; outside it the
\* store lands on the neighbouring fields and the count is whatever the
\* build makes of it (shown as the incremented value or a negative one).
CountAfterWrite(i) ==
    IF i \in 0..(BRIX_MAX_HOOKS - 1) THEN {i + 1} ELSE {i + 1, -1}

\* test_<kind>_register(closure_ptr): nothing without a suite; else
\* i = count++ and the closure is stored at index i, with no test of i
\* against BRIX_MAX_HOOKS.
RegisterHook(kind) ==
    /\ Running
    /\ last.op \in {"init", "describe", "done"}
    /\ hist.regs < MaxRegs
    /\ Counting("regs")
    /\ IF ~Suite.g_suite THEN NoEffect("register")
       ELSE LET i == Suite.count[kind]
            IN  /\ \E n \in CountAfterWrite(i) :
                      heap' = <<[Suite EXCEPT
                                   !.count[kind] = n,
                                   !.hooks[kind] = IF i \in 0..(BRIX_MAX_HOOKS - 1)
                                                   THEN [@ EXCEPT ![i + 1] = NextClosure]
                                                   ELSE @]>>
                /\ events' = Append(events, Event("write_" \o kind, <<i>>))
                /\ UNCHANGED <<last, status>>

test_before_all_register == RegisterHook("before_all")
test_after_all_register == RegisterHook("after_all")
test_before_each_register == RegisterHook("before_each")
test_after_each_register == RegisterHook("after_each")

\* The statements after the `if (setjmp(...) == 0)' of the loop body:
\* e->passed = (g_test_failed == 0) and the count that goes with it.
Tally(g, e) ==
    [g EXCEPT !.tests[e + 1].passed = IF g.g_test_failed = 0 THEN 1 ELSE 0,
              !.tests[e + 1].counted = @ + 1,
              !.passed_count = IF g.g_test_failed = 0 THEN @ + 1 ELSE @,
              !.failed_count = IF g.g_test_failed = 0 THEN @ ELSE @ + 1]

\* brix_test_run_all from the place `at' up to the next call of a closure
\* or to the report: the suite as the statements passed leave it, and the
\* place reached.
RECURSIVE RunFrom(_, _, _, _, _)
RunFrom(g, at, t, e, i) ==
    CASE at = "before_all" ->
            IF i < g.count.before_all THEN [g |-> g, pos |-> Pos(at, t, e, i)]
            ELSE RunFrom(g, "test", 0, e, 0)
      [] at = "test" ->
            IF t < g.test_count
            THEN RunFrom([g EXCEPT !.g_current_test_idx = t], "before_each", t, t, 0)
            ELSE RunFrom([g EXCEPT !.g_current_test_idx = -1], "after_all", t, e, 0)
      [] at = "before_each" ->
            IF i < g.count.before_each THEN [g |-> g, pos |-> Pos(at, t, e, i)]
            ELSE [g |-> [g EXCEPT !.g_test_failed = 0, !.g_test_jmp = <<t, e>>],
                  pos |-> Pos("body", t, e, 0)]
      [] at = "after_body" -> RunFrom(Tally(g, e), "after_each", t, e, 0)
      [] at = "after_each" ->
            IF i < g.count.after_each THEN [g |-> g, pos |-> Pos(at, t, e, i)]
            ELSE RunFrom(g, "test", t + 1, e, 0)
      [] at = "after_all" ->
            IF i < g.count.after_all THEN [g |-> g, pos |-> Pos(at, t, e, i)]
            ELSE [g |-> g, pos |-> Pos("report", t, e, 0)]

\* The runner goes on from `at' after the step `what' (a closure it called,
\* or the start of the run), which the list of events takes up.
Resume(g, at, t, e, i, what) ==
    LET r == RunFrom(g, at, t, e, i)
    IN  /\ heap' = <<r.g>>
        /\ last' = r.pos
        /\ events' = events \o what
        /\ UNCHANGED status

\* The closure called at Here, and the jump out of it.
Called == <<Event(Here.at, <<Here.t, Here.i>>)>>
Jumped == Called \o <<Event("failed", <<Here.t, Here.i>>)>>

\* The suite once the closure at Here has been entered.
Entered ==
    IF Here.at = "body" THEN [Suite EXCEPT !.tests[Here.e + 1].runs = @ + 1] ELSE Suite

\* The process is killed by a signal during the step `what'.
Crash(g, what) ==
    /\ status' = "crashed"
    /\ heap' = <<g>>
    /\ events' = events \o what
    /\ UNCHANGED last

\* brix_get_current(): the index of the running test's entry, or -1 for NULL.
brix_get_current(g) ==
    IF ~g.g_suite \/ g.g_current_test_idx < 0 THEN -1 ELSE g.g_current_test_idx

\* brix_test_fail(e, msg, file, line) called from the closure running at
\* Here: the message, file and line are written into the entry,
\* g_test_failed is set, and longjmp(g_test_jmp, 1) takes the runner to
\* the statements after its setjmp.  A g_test_jmp that setjmp never filled
\* makes the jump undefined; the locals t and e hold the value they had at
\* the setjmp or their current one when they were changed in between.
brix_test_fail(idx, site) ==
    LET g == [Entered EXCEPT !.tests[idx + 1].error = site, !.g_test_failed = 1]
    IN  IF g.g_test_jmp = <<>>
        THEN Crash(g, Jumped)
        ELSE \E t \in {g.g_test_jmp[1], Here.t}, e \in {g.g_test_jmp[2], Here.e} :
                Resume(g, "after_body", t, e, 0, Jumped)

\* The next place of the runner when the closure called at Here returns.
Following == IF Here.at = "body" THEN "after_body" ELSE Here.at

\* The closure the runner has called (a hook or a test body) calls
\* test_expect_toBe_int(actual, expected, file, line) and returns if the
\* matcher does.  The matcher does nothing when the values are equal or no
\* test is current; otherwise it calls brix_test_fail.  A hook entry
\* outside its array or never written is not a closure.
CallClosure ==
    /\ Running
    /\ Here.at \in HookKinds \cup {"body"}
    /\ hist.matchers < MaxMatchers
    /\ IF Here.at \in HookKinds /\ (Here.i >= BRIX_MAX_HOOKS
                                     \/ Suite.hooks[Here.at][Here.i + 1] = NULL)
       THEN Crash(Suite, Called) /\ UNCHANGED hist
       ELSE \E actual \in {0, 1}, expected \in {0, 1} :
               /\ Counting("matchers")
               /\ IF actual # expected /\ brix_get_current(Suite) # -1
                  THEN brix_test_fail(brix_get_current(Suite), <<Here.at, Here.t, Here.i>>)
                  ELSE Resume(Entered, Following, Here.t, Here.e, Here.i + 1, Called)

\* The closure the runner has called calls no matcher and returns.
CallQuietClosure ==
    /\ Running
    /\ Here.at \in HookKinds \cup {"body"}
    /\ UNCHANGED hist
    /\ IF Here.at \in HookKinds /\ (Here.i >= BRIX_MAX_HOOKS
                                     \/ Suite.hooks[Here.at][Here.i + 1] = NULL)
       THEN Crash(Suite, Called)
       ELSE Resume(Entered, Following, Here.t, Here.e, Here.i + 1, Called)

\* test_expect_toBe_int called with unequal values while no closure of the
\* runner's loop is running: before, inside or after the describe closure.
MatcherOutside ==
    /\ Running
    /\ last.op \in {"init", "describe", "done"}
    /\ hist.matchers < MaxMatchers
    /\ Counting("matchers")
    /\ IF brix_get_current(Suite) = -1 THEN NoEffect("matcher")
       ELSE brix_test_fail(brix_get_current(Suite), <<last.op, -1, 0>>)

\* test_describe_start(title, closure_ptr) up to the call of the describe
\* closure: g_suite = calloc(...), exit(1) when that fails.
test_describe_start ==
    /\ Running
    /\ last.op = "init"
    /\ UNCHANGED hist
    /\ \/ /\ status' = "exited"
          /\ events' = Append(events, Event("exit", <<>>))
          /\ UNCHANGED <<heap, last>>
       \/ /\ heap' = <<[Suite EXCEPT !.g_suite = TRUE]>>
          /\ last' = Pos("describe", -1, -1, 0)
          /\ events' = Append(events, Event("describe", <<>>))
          /\ UNCHANGED status

\* The describe closure returns and brix_test_run_all() starts.
brix_test_run_all ==
    /\ Running
    /\ last.op = "describe"
    /\ UNCHANGED hist
    /\ Resume(Suite, "before_all", -1, -1, 0, <<Event("run_all", <<>>)>>)

\* The report of brix_test_run_all and what follows it: exit(1) when
\* failed_count is not 0; otherwise the runner returns and
\* test_describe_start frees the suite and sets g_suite = NULL.
Report ==
    /\ Running
    /\ last.op = "report"
    /\ UNCHANGED hist
    /\ IF Suite.failed_count # 0
       THEN /\ status' = "exited"
            /\ events' = Append(events, Event("exit", <<>>))
            /\ UNCHANGED <<heap, last>>
       ELSE /\ heap' = <<[NoSuite EXCEPT !.g_test_failed = Suite.g_test_failed,
                                         !.g_test_jmp = Suite.g_test_jmp]>>
            /\ last' = Pos("done", -1, -1, 0)
            /\ events' = Append(events, Event("report", <<>>))
            /\ UNCHANGED status

InitSuite ==
    /\ heap = <<NoSuite>>
    /\ hist = [regs |-> 0, matchers |-> 0]
    /\ last = Pos("init", -1, -1, 0)
    /\ events = <<>>
    /\ status = "running"

NextSuite ==
    \/ test_describe_start
    \/ test_it_register
    \/ test_before_all_register
    \/ test_after_all_register
    \/ test_before_each_register
    \/ test_after_each_register
    \/ MatcherOutside
    \/ brix_test_run_all
    \/ CallClosure
    \/ CallQuietClosure
    \/ Report

SpecSuite == InitSuite /\ [][NextSuite]_vars

\* The events of `evs' whose name is in `names', in order.
RECURSIVE Only(_, _)
Only(evs, names) ==
    IF evs = <<>> THEN <<>>
    ELSE (IF Head(evs).ev \in names THEN <<Head(evs)>> ELSE <<>>) \o Only(Tail(evs), names)

\* The calls of the hooks of one kind, in array order, made for test t.
HookCalls(kind, t) == [i \in 1..Suite.count[kind] |-> Event(kind, <<t, i - 1>>)]

\* The closure calls of the tests from t on, as the order of a suite has
\* them.
RECURSIVE TestCalls(_)
TestCalls(t) ==
    IF t >= Suite.test_count THEN <<>>
    ELSE HookCalls("before_each", t) \o <<Event("body", <<t, 0>>)>>
             \o HookCalls("after_each", t) \o TestCalls(t + 1)

ExpectedCalls ==
    HookCalls("before_all", -1) \o TestCalls(0) \o HookCalls("after_all", Suite.test_count)

IsPrefix(s1, s2) == Len(s1) <= Len(s2) /\ SubSeq(s2, 1, Len(s1)) = s1

\* The runner is inside brix_test_run_all.
InRun == last.op \in HookKinds \cup {"body", "report"}

\* No matcher has failed inside a before_each or after_each hook, and no
\* hook array has been written outside its bounds.
HooksQuiet ==
    /\ \A k \in 1..Len(events) :
          events[k].ev = "failed" =>
              events[k - 1].ev \notin {"before_each", "after_each"}
    /\ \A kind \in HookKinds : Suite.count[kind] \in 0..BRIX_MAX_HOOKS

\* C27: the closures of a suite are called in the order describe closure,
\* before_all hooks in registration order, then for each test in
\* registration order its before_each hooks, its body and its after_each
\* hooks, then the after_all hooks, and the report comes after them all.
SuiteOrder ==
    InRun =>
        /\ Only(events, {"describe", "run_all"}) = <<Event("describe", <<>>), Event("run_all", <<>>)>>
        /\ IsPrefix(Only(events, HookKinds \cup {"body"}), ExpectedCalls)
        /\ last.op = "report" => Only(events, HookKinds \cup {"body"}) = ExpectedCalls

\* The same order holds in the runs whose before_each and after_each hooks
\* raise no matcher failure and whose hook arrays are not overrun.
SuiteOrderWhenHooksQuiet == HooksQuiet => SuiteOrder

\* A step in which the body of the test at Here fails a matcher.
BodyFails ==
    /\ last.op = "body"
    /\ Len(events') = Len(events) + 2
    /\ events'[Len(events')].ev = "failed"

\* C28: a matcher failure in the body of a test marks that entry, and no
\* other, as failed with the matcher's message, file and line, and the
\* runner goes on with the test's after_each hooks and with every later
\* test; after the report the process exits with status 1 exactly when a
\* test is marked failed; a matcher that fails while no test is running
\* changes nothing.
BodyFailureIsContained ==
    /\ [][BodyFails =>
             LET t == last.x[2]
             IN  /\ Suite'.tests[t + 1].passed = 0
                 /\ Suite'.tests[t + 1].error = <<"body", t, 0>>
                 /\ \A u \in 1..Suite.test_count :
                       u # t + 1 => Suite'.tests[u] = Suite.tests[u]
                 /\ last' = RunFrom(Suite', "after_each", t, t, 0).pos]_vars
    /\ [](last.op = "report" =>
             \A k \in 2..Len(events) :
                 (events[k].ev = "failed" /\ events[k - 1].ev = "body") =>
                     \A u \in 1..Suite.test_count :
                         u > events[k].at[1] + 1 => Suite.tests[u].runs >= 1)
    /\ [][last.op = "report" =>
             (status' = "exited" <=> \E u \in 1..Suite.test_count : Suite.tests[u].passed = 0)]_vars
    /\ [][(last.op \in {"init", "describe", "done"} /\ hist'.matchers # hist.matchers)
             => heap' = heap]_vars

\* The same holds when the later tests and the exit status are looked at
\* in the runs whose hooks are quiet only.
BodyFailureMarksItsTest ==
    /\ [][BodyFails =>
             LET t == last.x[2]
             IN  /\ Suite'.tests[t + 1].passed = 0
                 /\ Suite'.tests[t + 1].error = <<"body", t, 0>>
                 /\ \A u \in 1..Suite.test_count :
                       u # t + 1 => Suite'.tests[u] = Suite.tests[u]
                 /\ last' = RunFrom(Suite', "after_each", t, t, 0).pos]_vars
    /\ []((last.op = "report" /\ HooksQuiet) =>
             \A u \in 1..Suite.test_count : Suite.tests[u].runs >= 1)
    /\ [][(last.op = "report" /\ HooksQuiet) =>
             (status' = "exited" <=> \E u \in 1..Suite.test_count : Suite.tests[u].passed = 0)]_vars
    /\ [][(last.op \in {"init", "describe", "done"} /\ hist'.matchers # hist.matchers)
             => heap' = heap]_vars

\* C29: whatever matchers fail in bodies and hooks, when the run reaches
\* its report every test body has been called once, every test has been
\* counted once, and passed_count + failed_count = test_count.
EachTestOnce ==
    last.op = "report" =>
        /\ \A u \in 1..Suite.test_count :
              Suite.tests[u].runs = 1 /\ Suite.tests[u].counted = 1
        /\ Suite.passed_count + Suite.failed_count = Suite.test_count

\* The same counts hold in the runs whose hooks are quiet.
EachTestOnceWhenHooksQuiet == HooksQuiet => EachTestOnce

\* C30: the four hook counts stay within 0..BRIX_MAX_HOOKS and test_count
\* within 0..BRIX_MAX_TESTS, every entry written lies inside its array, and
\* a registration made while no suite is active changes nothing.
ArraysNeverOverrun ==
    /\ [](/\ \A kind \in HookKinds : Suite.count[kind] \in 0..BRIX_MAX_HOOKS
          /\ Suite.test_count \in 0..BRIX_MAX_TESTS
          /\ \A k \in 1..Len(events) :
                /\ events[k].ev \in {"write_" \o kind : kind \in HookKinds} =>
                      events[k].at[1] \in 0..(BRIX_MAX_HOOKS - 1)
                /\ events[k].ev = "write_test" =>
                      events[k].at[1] \in 0..(BRIX_MAX_TESTS - 1))
    /\ [][(~Suite.g_suite /\ hist'.regs # hist.regs) => heap' = heap]_vars

\* The tests array alone is never overrun, and a registration without a
\* suite changes nothing.
TestsNeverOverrun ==
    /\ [](/\ Suite.test_count \in 0..BRIX_MAX_TESTS
          /\ \A k \in 1..Len(events) :
                events[k].ev = "write_test" => events[k].at[1] \in 0..(BRIX_MAX_TESTS - 1))
    /\ [][(~Suite.g_suite /\ hist'.regs # hist.regs) => heap' = heap]_vars

====
